---------------------------- MODULE Spec2Model ----------------------------
(***************************************************************************)
(* A model of the Grasshopper definition viewer: the format validator, the *)
(* multi-strategy parser and the definition writer of                      *)
(* lib/grasshopper-parser.ts and lib/rhino-compute.ts, and the mesh wire   *)
(* decoder of lib/rhino-compute.ts.                                        *)
(*                                                                         *)
(* A byte is a number 0..255.  A Buffer is kept run-length encoded: a      *)
(* sequence of segments [b |-> bytes, n |-> k], standing for the bytes b   *)
(* repeated k times.  This keeps the program's real thresholds (100 bytes, *)
(* 100 MiB, 10 000 bytes, 1000 bytes) within reach of the model checker;   *)
(* every operator below is defined on the bytes the segments stand for.    *)
(* Offsets are 0-based, as in the source.                                  *)
(***************************************************************************)
EXTENDS Integers, Sequences, FiniteSets, TLC

Min(a, b) == IF a <= b THEN a ELSE b
Max(a, b) == IF a >= b THEN a ELSE b

(***************************************************************************)
(* Buffers.                                                                *)
(***************************************************************************)
Seg(b, n) == [b |-> b, n |-> n]

\* One run, flattened to its bytes (used on short runs only).
Repeat(b, n) == [i \in 1..(Len(b) * n) |-> b[((i - 1) % Len(b)) + 1]]

\* buffer.length
RECURSIVE BufLen(_)
BufLen(buf) ==
  IF buf = << >> THEN 0
  ELSE Len(Head(buf).b) * Head(buf).n + BufLen(Tail(buf))

\* The bytes of a buffer, one by one.
RECURSIVE Flat(_)
Flat(buf) ==
  IF buf = << >> THEN << >>
  ELSE Repeat(Head(buf).b, Head(buf).n) \o Flat(Tail(buf))

\* Segments that stand for no byte are dropped.
Norm(buf) == SelectSeq(buf, LAMBDA s : s.n > 0 /\ Len(s.b) > 0)

\* buffer.slice(0, k): the first k bytes.
RECURSIVE Take(_, _)
Take(buf, k) ==
  IF buf = << >> \/ k <= 0 THEN << >>
  ELSE LET s == Head(buf)
           m == Len(s.b)
           l == m * s.n
       IN  IF l = 0 THEN Take(Tail(buf), k)
           ELSE IF l <= k THEN <<s>> \o Take(Tail(buf), k - l)
           ELSE LET q == k \div m
                    r == k % m
                IN  Norm(<<Seg(s.b, q), Seg(SubSeq(s.b, 1, r), 1)>>)

\* buffer.slice(k): all but the first k bytes.
RECURSIVE Drop(_, _)
Drop(buf, k) ==
  IF buf = << >> THEN << >>
  ELSE IF k <= 0 THEN buf
  ELSE LET s == Head(buf)
           m == Len(s.b)
           l == m * s.n
       IN  IF l <= k THEN Drop(Tail(buf), k - l)
           ELSE LET q == k \div m
                    r == k % m
                IN  IF r = 0 THEN <<Seg(s.b, s.n - q)>> \o Tail(buf)
                    ELSE Norm(<<Seg(SubSeq(s.b, r + 1, m), 1),
                                Seg(s.b, s.n - q - 1)>>) \o Tail(buf)

\* buffer.slice(from, to), both already clamped to 0..length by the caller.
Slice(buf, from, to) == Take(Drop(buf, from), to - from)

(***************************************************************************)
(* Buffer.indexOf.  A run of more than 2h copies of its period, where h    *)
(* copies cover the pattern and one period more, is searched by its first  *)
(* h and last h copies only: an occurrence inside the run recurs at every  *)
(* period, so the first one starts in the first period, and an occurrence  *)
(* that leaves the run touches fewer than Len(pat) bytes of one of its     *)
(* ends.  Clip gives the searched bytes and, for each run cut, the offset  *)
(* where the cut is and the number of bytes cut out.                       *)
(***************************************************************************)
Copies(s, L) == (L + Len(s.b) - 1) \div Len(s.b) + 1

\* The searched bytes of one run of period m, of which h copies cover the
\* pattern, before the bytes rest of the runs that follow it.
ClipRun(s, m, h, at, rest) ==
  IF s.n <= 2 * h THEN [bytes |-> Repeat(s.b, s.n) \o rest.bytes, cuts |-> rest.cuts]
  ELSE [bytes |-> Repeat(s.b, 2 * h) \o rest.bytes,
        cuts  |-> <<[at |-> at + h * m, gap |-> (s.n - 2 * h) * m]>> \o rest.cuts]

RECURSIVE Clip(_, _, _)
ClipHead(s, tail, L, at, h) ==
  ClipRun(s, Len(s.b), h, at, Clip(tail, L, at + Len(s.b) * Min(s.n, 2 * h)))

Clip(buf, L, at) ==
  IF buf = << >> THEN [bytes |-> << >>, cuts |-> << >>]
  ELSE ClipHead(Head(buf), Tail(buf), L, at, Copies(Head(buf), L))

\* Does pat (or, with ci, a case variant of it) start at 0-based offset i?
Lower(c) == IF c >= 65 /\ c <= 90 THEN c + 32 ELSE c
MatchAt(bytes, pat, i, ci) ==
  /\ i + Len(pat) <= Len(bytes)
  /\ \A j \in 1..Len(pat) :
        IF ci THEN Lower(bytes[i + j]) = Lower(pat[j]) ELSE bytes[i + j] = pat[j]

RECURSIVE Gaps(_, _)
Gaps(cuts, i) ==
  IF cuts = << >> THEN 0
  ELSE (IF Head(cuts).at <= i THEN Head(cuts).gap ELSE 0) + Gaps(Tail(cuts), i)

\* -1, or the offset i counted from from.
Offset(i, from) == IF i = -1 THEN -1 ELSE i + from

\* The least of hits, counted in the bytes of the whole buffer, or -1.
LeastOf(hits) == CHOOSE x \in hits : \A y \in hits : x <= y
Widen(i, cuts) == i + Gaps(cuts, i)
Lowest(hits, cuts) == IF hits = {} THEN -1 ELSE Widen(LeastOf(hits), cuts)
Hits(c, pat, ci) ==
  Lowest({i \in 0..(Len(c.bytes) - Len(pat)) : MatchAt(c.bytes, pat, i, ci)}, c.cuts)

\* The first offset >= 0 at which pat occurs, or -1.
Find(buf, pat, ci) == Hits(Clip(Norm(buf), Len(pat), 0), pat, ci)

\* buffer.indexOf(pat, from)
IndexOf(buf, pat, from) == Offset(Find(Drop(buf, from), pat, FALSE), Max(from, 0))

\* buffer[i]
ByteAt(buf, i) == Flat(Slice(buf, i, i + 1))[1]

\* The number of bytes of buf that lie in the set class.
RECURSIVE CountBytes(_, _)
CountBytes(buf, class) ==
  IF buf = << >> THEN 0
  ELSE LET s == Head(buf)
       IN  s.n * Cardinality({j \in 1..Len(s.b) : s.b[j] \in class})
           + CountBytes(Tail(buf), class)

(***************************************************************************)
(* Literals of the source, as bytes.                                       *)
(***************************************************************************)
B_Nul            == <<0>>
B_NulOne         == <<0, 1>>
S_XmlDecl        == <<60, 63, 120, 109, 108>>                       \* <?xml
S_XmlDeclEnd     == <<63, 62>>                                      \* ?>
S_Root           == <<60, 114, 111, 111, 116>>                      \* <root
S_XmlSerial      == <<83, 121, 115, 116, 101, 109, 46, 88, 109, 108, 46, 83, 101,
                      114, 105, 97, 108, 105, 122, 97, 116, 105, 111, 110>>
                                                        \* System.Xml.Serialization
S_DataContract   == <<60, 68, 97, 116, 97, 67, 111, 110, 116, 114, 97, 99, 116>>
                                                        \* <DataContract
S_RuntimeSerial  == <<83, 121, 115, 116, 101, 109, 46, 82, 117, 110, 116, 105, 109,
                      101, 46, 83, 101, 114, 105, 97, 108, 105, 122, 97, 116, 105,
                      111, 110>>                    \* System.Runtime.Serialization
S_DCSerializer   == <<68, 97, 116, 97, 67, 111, 110, 116, 114, 97, 99, 116, 83, 101,
                      114, 105, 97, 108, 105, 122, 101, 114>>
                                                        \* DataContractSerializer
S_GH             == <<71, 72, 95>>                                  \* GH_
S_Grasshopper    == <<71, 114, 97, 115, 115, 104, 111, 112, 112, 101, 114>>
S_GrasshopperDot == S_Grasshopper \o <<46>>                         \* Grasshopper.
S_System         == <<83, 121, 115, 116, 101, 109, 46>>             \* System.
S_Rhino          == <<82, 104, 105, 110, 111, 46>>                  \* Rhino.
S_Mscorlib       == <<109, 115, 99, 111, 114, 108, 105, 98>>        \* mscorlib
S_GHDocument     == <<71, 72, 95, 68, 111, 99, 117, 109, 101, 110, 116>>
                                                        \* GH_Document
S_DocumentIO     == <<68, 111, 99, 117, 109, 101, 110, 116, 73, 79>>
                                                        \* DocumentIO
S_Kernel         == <<46, 75, 101, 114, 110, 101, 108, 46>>         \* .Kernel.
S_KernelDocument == S_Grasshopper \o S_Kernel \o S_GHDocument
S_KernelDocIO    == S_Grasshopper \o S_Kernel \o S_GH \o S_DocumentIO
S_GHArchive      == <<71, 72, 95, 65, 114, 99, 104, 105, 118, 101>> \* GH_Archive
S_SliderFragment == <<53, 55, 100, 97, 48, 55, 98, 100>>            \* 57da07bd
S_PanelFragment  == <<53, 57, 101, 48, 98, 56, 57, 97>>             \* 59e0b89a
S_Version        == <<118, 49, 46, 48>>                             \* v1.0

(***************************************************************************)
(* Format validator.                                                       *)
(***************************************************************************)
MinFileSize    == 100
MaxFileSize    == 100 * 1024 * 1024
TextSample     == 10000
HeaderWindow   == 1000
VersionWindow  == 5000

IsNull == {0}
IsText == (32..126) \cup {9, 10, 13}

\* NullRatioHigh with the limit at nine tenths.
NullRatioHigh_NineTenths(buf) == 10 * CountBytes(buf, IsNull) > 9 * BufLen(buf)

\* nullCount / buffer.length > 0.8, on the exact quotient.
NullRatioHigh(buf) == 5 * CountBytes(buf, IsNull) > 4 * BufLen(buf)

\* The two comparisons of calculateTextRatio's result, on the exact quotient.
TextRatioLow(buf) ==
  LET sampleSize == Min(TextSample, BufLen(buf))
  IN  10 * CountBytes(Take(buf, sampleSize), IsText) < sampleSize
TextRatioHigh(buf) ==
  LET sampleSize == Min(TextSample, BufLen(buf))
  IN  10 * CountBytes(Take(buf, sampleSize), IsText) > 9 * sampleSize

\* if (textRatio < 0.1 && textRatio > 0.9)
TextRatioUnusual(buf) == TextRatioLow(buf) /\ TextRatioHigh(buf)

ValidHeaders == {B_Nul, S_XmlDecl, S_DataContract, S_GH, S_Grasshopper}

\* ValidateFileHeader without the limit on the offset.
ValidateFileHeader_Anywhere(buf) ==
  \E header \in ValidHeaders : IndexOf(buf, header, 0) # -1

ValidateFileHeader(buf) ==
  \E header \in ValidHeaders :
     IndexOf(buf, header, 0) # -1 /\ IndexOf(buf, header, 0) < HeaderWindow

ValidateFileStructure(buf) ==
  IF NullRatioHigh(buf) THEN FALSE
  ELSE IF TextRatioUnusual(buf) THEN FALSE
  ELSE IF ~ValidateFileHeader(buf) THEN FALSE
  ELSE TRUE

CheckForNetSerialization(buf) ==
  \E signature \in {B_NulOne, S_System, S_Mscorlib} : IndexOf(buf, signature, 0) # -1

\* The markers are ASCII, so the UTF-8 decoding of the first 10 000 bytes
\* includes one exactly when those bytes do.
CheckForGrasshopperMarkers(buf) ==
  \E marker \in {S_Grasshopper, S_GHDocument, S_DocumentIO, S_SliderFragment,
                 S_PanelFragment} :
     IndexOf(Take(buf, Min(BufLen(buf), TextSample)), marker, 0) # -1

\* extractDocumentVersion, by the shape of the version text it returns.  The
\* buffers of this model carry a version only as the text v1.0, which the
\* second pattern, /v([0-9]+\.[0-9]+)/i, captures as major.minor.
ExtractDocumentVersion(buf) ==
  IF Find(buf, S_Version, TRUE) # -1 THEN "major.minor" ELSE "unknown"

SupportedVersions == {"major.minor", "major.minor.build", "major.minor.build.revision"}

ValidateDocumentVersion(buf) ==
  LET version == ExtractDocumentVersion(Take(buf, VersionWindow))
  IN  IF version = "unknown" THEN TRUE
      ELSE version \in SupportedVersions

ValidateRequiredComponents(buf) ==
  Cardinality({marker \in {S_GHDocument, S_DocumentIO} :
                 IndexOf(buf, marker, 0) # -1}) > 0

\* Is one of the markers found from position on, less than 1000 bytes after it?
MarkerNear(buf, markers, position) ==
  \E marker \in markers :
     /\ IndexOf(buf, marker, position) # -1
     /\ IndexOf(buf, marker, position) < position + HeaderWindow

IsDataContractSerialization(buf, position) ==
  MarkerNear(buf, {S_DataContract, S_RuntimeSerial, S_DCSerializer}, position)

IsXmlSerialization(buf, position) ==
  MarkerNear(buf, {S_XmlDecl, S_Root, S_XmlSerial}, position)

\* reader.position after parseBinaryFormatterHeader, entered at position.
ParseBinaryFormatterHeader(buf, position) ==
  IF position + 17 > BufLen(buf) THEN position
  ELSE IF ByteAt(buf, position) # 0 THEN position + 1
  ELSE position + 17

SkipDataContractHeader(buf, position) ==
  LET dcStart == IndexOf(buf, S_DataContract, position)
  IN  IF dcStart # -1 THEN dcStart ELSE position

SkipXmlHeader(buf, position) ==
  LET xmlStart == IndexOf(buf, S_XmlDecl, position)
  IN  IF xmlStart = -1 THEN position
      ELSE LET declEnd == IndexOf(buf, S_XmlDeclEnd, xmlStart)
           IN  IF declEnd # -1 THEN declEnd + 2 ELSE xmlStart

\* reader.position after skipBinaryHeader, entered at position 0.
SkipBinaryHeader(buf) ==
  IF 16 > BufLen(buf) THEN 0
  ELSE IF ByteAt(buf, 0) = 0 THEN ParseBinaryFormatterHeader(buf, 1)
  ELSE IF IsDataContractSerialization(buf, 0) THEN SkipDataContractHeader(buf, 0)
  ELSE IF IsXmlSerialization(buf, 0) THEN SkipXmlHeader(buf, 0)
  ELSE 0

DocumentMarkers == <<S_GHDocument, S_DocumentIO, S_KernelDocument, S_KernelDocIO,
                     S_GHArchive>>
NetTypePatterns == <<S_System, S_GrasshopperDot, S_Rhino, S_GH, S_Mscorlib>>

NullDocument == [position |-> -1, type |-> "null"]

\* The first hit of findNetObjectReferences: every hit has a type name, since
\* each pattern begins with a character of /^([A-Za-z0-9_.]+)/.
\* The most hits a pattern's search goes on after.
NetObjectLimit == 50

\* The hits the search for one pattern pushes when n objects are held: the
\* next occurrence from searchPos on, and further ones while fewer than
\* NetObjectLimit are held.  (extractTypeName finds a name at every hit: the
\* text there begins with the pattern.)
RECURSIVE PatternHits(_, _, _, _)
PatternHits(buf, pattern, searchPos, n) ==
  LET index == IndexOf(buf, pattern, searchPos)
  IN  IF index = -1 THEN << >>
      ELSE <<[position |-> index, type |-> pattern]>>
           \o (IF n + 1 >= NetObjectLimit THEN << >>
               ELSE PatternHits(buf, pattern, index + 1, n + 1))

RECURSIVE NetObjects(_, _, _, _)
NetObjects(buf, startPosition, k, objects) ==
  IF k > Len(NetTypePatterns) THEN objects
  ELSE NetObjects(buf, startPosition, k + 1,
                  objects \o PatternHits(buf, NetTypePatterns[k], startPosition,
                                         Len(objects)))

FindNetObjectReferences(buf, startPosition) == NetObjects(buf, startPosition, 1, << >>)

FindGrasshopperDocument(buf, position) ==
  LET found == {k \in 1..Len(DocumentMarkers) :
                  IndexOf(buf, DocumentMarkers[k], position) # -1}
      netObjects == FindNetObjectReferences(buf, position)
  IN  IF found # {}
      THEN [position |-> IndexOf(buf, DocumentMarkers[CHOOSE k \in found :
                                                      \A l \in found : k <= l],
                                 position),
            type |-> "marker"]
      ELSE IF Len(netObjects) > 0
      THEN [position |-> netObjects[1].position, type |-> "NET_OBJECTS",
            objects |-> netObjects]
      ELSE NullDocument

ValidateBinaryConsistency(buf) ==
  FindGrasshopperDocument(buf, SkipBinaryHeader(buf)) # NullDocument

\* ValidateGrasshopperFile without the lower limit on the size.
ValidateGrasshopperFile_NoFloor(buf) ==
  IF BufLen(buf) > MaxFileSize THEN FALSE
  ELSE IF ~ValidateFileStructure(buf) THEN FALSE
  ELSE /\ (CheckForNetSerialization(buf) \/ CheckForGrasshopperMarkers(buf))
       /\ ValidateDocumentVersion(buf)
       /\ ValidateRequiredComponents(buf)
       /\ ValidateBinaryConsistency(buf)

ValidateGrasshopperFile(buf) ==
  IF BufLen(buf) < MinFileSize THEN FALSE
  ELSE IF BufLen(buf) > MaxFileSize THEN FALSE
  ELSE IF ~ValidateFileStructure(buf) THEN FALSE
  ELSE /\ (CheckForNetSerialization(buf) \/ CheckForGrasshopperMarkers(buf))
       /\ ValidateDocumentVersion(buf)
       /\ ValidateRequiredComponents(buf)
       /\ ValidateBinaryConsistency(buf)


(***************************************************************************)
(* Structural locator and component decoders.                              *)
(***************************************************************************)
\* Every offset >= from at which pat occurs: the loop of findComponentsByGuid.
RECURSIVE AllIndexOf(_, _, _)
AllIndexOf(buf, pat, from) ==
  LET index == IndexOf(buf, pat, from)
  IN  IF index = -1 THEN << >> ELSE <<index>> \o AllIndexOf(buf, pat, index + 1)

G_NumberSlider == <<53, 55, 100, 97, 48, 55, 98, 100, 45, 101, 99, 97, 98, 45, 52, 49,
                    53, 100, 45, 57, 100, 56, 54, 45, 97, 102, 51, 54, 100, 55, 48,
                    55, 51, 97, 98, 99>>   \* 57da07bd-ecab-415d-9d86-af36d7073abc
G_Panel        == <<53, 57, 101, 48, 98, 56, 57, 97, 45, 101, 52, 56, 55, 45, 52, 57,
                    102, 56, 45, 98, 97, 98, 56, 45, 98, 53, 98, 97, 98, 49, 54, 98,
                    101, 49, 52, 99>>      \* 59e0b89a-e487-49f8-bab8-b5bab16be14c
G_Toggle       == <<51, 54, 56, 99, 48, 101, 53, 53, 45, 55, 98, 54, 100, 45, 52, 102,
                    56, 50, 45, 56, 99, 48, 101, 45, 52, 97, 56, 99, 56, 101, 48, 101,
                    52, 102, 52, 102>>     \* 368c0e55-7b6d-4f82-8c0e-4a8c8e0e4f4f
G_Colour       == <<99, 53, 53, 50, 97, 52, 51, 49, 45, 97, 102, 53, 98, 45, 52, 54,
                    97, 57, 45, 97, 56, 97, 52, 45, 48, 102, 99, 98, 99, 50, 55, 101,
                    102, 53, 57, 54>>      \* c552a431-af5b-46a9-a8a4-0fcbc27ef596
G_IntSlider    == <<51, 53, 56, 49, 102, 52, 50, 97, 45, 57, 53, 57, 50, 45, 52, 53,
                    52, 57, 45, 98, 100, 54, 98, 45, 49, 99, 48, 102, 99, 51, 57, 100,
                    48, 54, 55, 98>>       \* 3581f42a-9592-4549-bd6b-1c0fc39d067b
G_Point        == <<101, 54, 99, 52, 50, 56, 51, 52, 45, 53, 97, 50, 52, 45, 52, 99,
                    53, 54, 45, 98, 57, 101, 56, 45, 57, 99, 51, 102, 52, 101, 53, 97,
                    54, 98, 55, 99>>       \* e6c42834-5a24-4c56-b9e8-9c3f4e5a6b7c
G_Vector       == <<56, 101, 99, 56, 54, 52, 53, 57, 45, 98, 102, 48, 49, 45, 52, 52,
                    48, 57, 45, 98, 97, 101, 101, 45, 49, 55, 52, 100, 48, 100, 50, 98,
                    49, 51, 100, 48>>      \* 8ec86459-bf01-4409-baee-174d0d2b13d0
G_Curve        == <<56, 52, 102, 97, 57, 49, 55, 99, 45, 49, 101, 100, 56, 45, 52, 100,
                    98, 51, 45, 56, 98, 101, 49, 45, 55, 98, 100, 99, 52, 97, 54, 52,
                    57, 53, 97, 50>>       \* 84fa917c-1ed8-4db3-8be1-7bdc4a6495a2
G_Surface      == <<49, 54, 50, 48, 53, 54, 102, 99, 45, 52, 100, 53, 52, 45, 52, 98,
                    56, 57, 45, 56, 99, 55, 50, 45, 49, 99, 51, 102, 52, 101, 53, 97,
                    54, 98, 55, 100>>      \* 162056fc-4d54-4b89-8c72-1c3f4e5a6b7d
G_Brep         == <<52, 102, 53, 99, 52, 98, 50, 97, 45, 51, 100, 56, 101, 45, 52, 102,
                    55, 97, 45, 57, 98, 50, 99, 45, 49, 100, 52, 101, 53, 102, 54, 97,
                    55, 98, 56, 99>>       \* 4f5c4b2a-3d8e-4f7a-9b2c-1d4e5f6a7b8c
G_Mesh         == <<56, 98, 100, 99, 52, 97, 54, 52, 45, 57, 53, 97, 50, 45, 52, 99,
                    53, 54, 45, 98, 57, 101, 56, 45, 57, 99, 51, 102, 52, 101, 53, 97,
                    54, 98, 55, 101>>      \* 8bdc4a64-95a2-4c56-b9e8-9c3f4e5a6b7e
G_Domain       == <<51, 55, 50, 54, 49, 55, 51, 52, 45, 101, 101, 99, 55, 45, 52, 102,
                    53, 48, 45, 98, 54, 97, 56, 45, 98, 56, 100, 52, 97, 54, 52, 57,
                    53, 97, 51, 102>>      \* 37261734-eec7-4f50-b6a8-b8d4a6495a3f

S_Slider       == <<83, 108, 105, 100, 101, 114, 32>>               \* "Slider "
S_Panel        == <<80, 97, 110, 101, 108, 32>>                     \* "Panel "
S_Toggle       == <<84, 111, 103, 103, 108, 101, 32>>               \* "Toggle "
S_ColorName    == <<67, 111, 108, 111, 114, 32>>                    \* "Color "
S_IntSlider    == <<73, 110, 116, 101, 103, 101, 114, 32>> \o S_Slider
S_Point        == <<80, 111, 105, 110, 116, 32>>                    \* "Point "
S_Vector       == <<86, 101, 99, 116, 111, 114, 32>>                \* "Vector "
S_Curve        == <<67, 117, 114, 118, 101, 32>>                    \* "Curve "
S_Surface      == <<83, 117, 114, 102, 97, 99, 101, 32>>            \* "Surface "
S_Brep         == <<66, 114, 101, 112, 32>>                         \* "Brep "
S_Mesh         == <<77, 101, 115, 104, 32>>                         \* "Mesh "
S_Domain       == <<68, 111, 109, 97, 105, 110, 32>>                \* "Domain "

M_Curve   == {<<78, 117, 114, 98, 115, 67, 117, 114, 118, 101>>,    \* NurbsCurve
              <<76, 105, 110, 101, 67, 117, 114, 118, 101>>,        \* LineCurve
              <<65, 114, 99, 67, 117, 114, 118, 101>>}              \* ArcCurve
M_Surface == {<<78, 117, 114, 98, 115, 83, 117, 114, 102, 97, 99, 101>>,
              <<80, 108, 97, 110, 101, 83, 117, 114, 102, 97, 99, 101>>,
              <<67, 121, 108, 105, 110, 100, 101, 114, 83, 117, 114, 102, 97, 99,
                101>>}            \* NurbsSurface, PlaneSurface, CylinderSurface
M_Brep    == {<<66, 114, 101, 112>>,                                \* Brep
              <<66, 114, 101, 112, 70, 97, 99, 101>>,               \* BrepFace
              <<66, 114, 101, 112, 69, 100, 103, 101>>}             \* BrepEdge
M_Mesh    == {<<77, 101, 115, 104>>,                                \* Mesh
              <<77, 101, 115, 104, 70, 97, 99, 101>>,               \* MeshFace
              <<77, 101, 115, 104, 86, 101, 114, 116, 101, 120>>}   \* MeshVertex

\* componentTypes of extractParametersFromDocument: the GUID, the type, the id
\* prefix and default-name prefix of the parser, and the extractor it uses.
ComponentTypes == <<
  [guid |-> G_NumberSlider, name |-> "Number Slider",    type |-> "number",
   id |-> "slider",    label |-> S_Slider,    parser |-> "slider"],
  [guid |-> G_Panel,        name |-> "Panel",            type |-> "text",
   id |-> "panel",     label |-> S_Panel,     parser |-> "panel"],
  [guid |-> G_Toggle,       name |-> "Boolean Toggle",   type |-> "boolean",
   id |-> "toggle",    label |-> S_Toggle,    parser |-> "toggle"],
  [guid |-> G_Colour,       name |-> "Colour Swatch",    type |-> "color",
   id |-> "color",     label |-> S_ColorName, parser |-> "color"],
  [guid |-> G_IntSlider,    name |-> "Integer Slider",   type |-> "integer",
   id |-> "intslider", label |-> S_IntSlider, parser |-> "intslider"],
  [guid |-> G_Point,        name |-> "Point Parameter",  type |-> "point",
   id |-> "point",     label |-> S_Point,     parser |-> "xyz"],
  [guid |-> G_Vector,       name |-> "Vector Parameter", type |-> "vector",
   id |-> "vector",    label |-> S_Vector,    parser |-> "xyz"],
  [guid |-> G_Curve,        name |-> "Curve Parameter",  type |-> "curve",
   id |-> "curve",     label |-> S_Curve,     parser |-> "geometry"],
  [guid |-> G_Surface,      name |-> "Surface Parameter", type |-> "surface",
   id |-> "surface",   label |-> S_Surface,   parser |-> "geometry"],
  [guid |-> G_Brep,         name |-> "Brep Parameter",   type |-> "brep",
   id |-> "brep",      label |-> S_Brep,      parser |-> "geometry"],
  [guid |-> G_Mesh,         name |-> "Mesh Parameter",   type |-> "mesh",
   id |-> "mesh",      label |-> S_Mesh,      parser |-> "geometry"],
  [guid |-> G_Domain,       name |-> "Domain Parameter", type |-> "domain",
   id |-> "domain",    label |-> S_Domain,    parser |-> "domain"] >>

GeometryMarkers(type) ==
  CASE type = "curve"   -> M_Curve
    [] type = "surface" -> M_Surface
    [] type = "brep"    -> M_Brep
    [] type = "mesh"    -> M_Mesh
    [] OTHER            -> {}

\* guid.toUpperCase() and guid.replace(/-/g, ''); the GUIDs are lower case.
ToUpper(text) == [j \in 1..Len(text) |->
                    IF text[j] >= 97 /\ text[j] <= 122 THEN text[j] - 32 ELSE text[j]]
NoHyphens(text) == SelectSeq(text, LAMBDA c : c # 45)
GuidFormats(guid) == <<NoHyphens(guid), NoHyphens(ToUpper(guid)), guid, ToUpper(guid)>>

\* extractComponentData: the window of at most 1000 bytes each side.
WindowRadius == 1000
SearchRadius == 500
ExtractComponentData(buf, position) ==
  [position  |-> position,
   dataStart |-> Max(0, position - WindowRadius),
   dataEnd   |-> Min(BufLen(buf), position + WindowRadius)]

RECURSIVE ComponentsOfFormats(_, _)
ComponentsOfFormats(buf, formats) ==
  IF formats = << >> THEN << >>
  ELSE LET hits == AllIndexOf(buf, Head(formats), 0)
       IN  [k \in 1..Len(hits) |-> ExtractComponentData(buf, hits[k])]
           \o ComponentsOfFormats(buf, Tail(formats))

FindComponentsByGuid(buf, guid) == ComponentsOfFormats(buf, GuidFormats(guid))

\* The bytes of componentData.buffer.slice(max(0, position - r), min(length,
\* position + r)), position being relative to the window.
SearchArea(buf, component, r) ==
  LET rel == component.position - component.dataStart
      len == component.dataEnd - component.dataStart
  IN  Flat(Slice(buf, component.dataStart + Max(0, rel - r),
                      component.dataStart + Min(len, rel + r)))

(***************************************************************************)
(* A 32-bit float is kept as its sign and the 31 bits below it, so that    *)
(* no 32-bit quantity overflows.  Positive floats are ordered as their     *)
(* bits, and 1 000 000 is the float 0x49742400, so a float is finite and   *)
(* within (-1e6, 1e6) exactly when its magnitude bits are below that.      *)
(***************************************************************************)
FloatLimitBits == 1232348160
Float(neg, mag) == [t |-> "float", neg |-> neg, mag |-> mag]
F_Zero    == Float(FALSE, 0)
F_One     == Float(FALSE, 1065353216)
F_Hundred == Float(FALSE, 1120403456)
F_Fifty   == Float(FALSE, 1112014848)
IsZeroFloat(f) == f.mag = 0

\* buffer.readFloatLE(i), i 0-based, on flat bytes.
ReadFloatLE(bytes, i) ==
  Float(bytes[i + 4] >= 128,
        bytes[i + 1] + 256 * bytes[i + 2] + 65536 * bytes[i + 3]
          + 16777216 * (bytes[i + 4] % 128))

\* The k smallest members of a set of numbers, ascending.
RECURSIVE Smallest(_, _)
Smallest(set, k) ==
  IF set = {} \/ k = 0 THEN << >>
  ELSE LET x == CHOOSE a \in set : \A b \in set : a <= b
       IN  <<x>> \o Smallest(set \ {x}, k - 1)

MaxFloatValues == 10
FindFloatValues(bytes) ==
  LET offsets == {i \in 0..(Len(bytes) - 4) :
                    i % 4 = 0 /\ ReadFloatLE(bytes, i).mag < FloatLimitBits}
      kept    == Smallest(offsets, MaxFloatValues)
  IN  [k \in 1..Len(kept) |-> ReadFloatLE(bytes, kept[k])]

IsLetter(c)  == (c >= 65 /\ c <= 90) \/ (c >= 97 /\ c <= 122)
IsDigit(c)   == c >= 48 /\ c <= 57
IsSpace(c)   == c \in {9, 10, 11, 12, 13, 32}
IsNameChar(c) == IsLetter(c) \/ IsDigit(c) \/ IsSpace(c)

\* text.trim(), on ASCII white space.
TrimRight(text) ==
  LET kept == {j \in 1..Len(text) : ~IsSpace(text[j])}
  IN  IF kept = {} THEN << >>
      ELSE SubSeq(text, 1, CHOOSE a \in kept : \A b \in kept : b <= a)
TrimLeft(text) ==
  LET kept == {j \in 1..Len(text) : ~IsSpace(text[j])}
  IN  IF kept = {} THEN << >>
      ELSE SubSeq(text, CHOOSE a \in kept : \A b \in kept : a <= b, Len(text))
Trim(text) == TrimLeft(TrimRight(text))

\* The first match of class{lo,hi} that begins at or after 1-based index p
\* with a byte satisfying the first-character test: its last index.
RunEnd(bytes, p, hi, class) ==
  LET stop == {j \in (p + 1)..Min(Len(bytes), p + hi) : bytes[j] \notin class}
  IN  IF stop = {} THEN Min(Len(bytes), p + hi)
      ELSE (CHOOSE a \in stop : \A b \in stop : a <= b) - 1

\* findComponentName: the first match of /[A-Za-z][A-Za-z0-9\s]{2,30}/,
\* trimmed, or "".  Bytes outside ASCII decode to no character of the class.
FindComponentName(bytes) ==
  LET starts == {p \in 1..(Len(bytes) - 2) :
                   /\ IsLetter(bytes[p])
                   /\ IsNameChar(bytes[p + 1])
                   /\ IsNameChar(bytes[p + 2])}
  IN  IF starts = {} THEN << >>
      ELSE LET p == CHOOSE a \in starts : \A b \in starts : a <= b
           IN  Trim(SubSeq(bytes, p, RunEnd(bytes, p, 30, {c \in 0..255 : IsNameChar(c)})))

\* findTextContent: control characters removed, trimmed, then the first
\* match of /[A-Za-z0-9\s\.\,\!\?]{5,100}/, trimmed.
IsContentChar(c) == IsLetter(c) \/ IsDigit(c) \/ IsSpace(c) \/ c \in {46, 44, 33, 63}
FindTextContent(bytes) ==
  LET clean  == Trim(SelectSeq(bytes, LAMBDA c : ~(c < 32 \/ c = 127)))
      starts == {p \in 1..(Len(clean) - 4) :
                   \A j \in p..(p + 4) : IsContentChar(clean[j])}
  IN  IF starts = {} THEN << >>
      ELSE LET p == CHOOSE a \in starts : \A b \in starts : a <= b
           IN  Trim(SubSeq(clean, p, RunEnd(clean, p, 99, {c \in 0..255 : IsContentChar(c)})))

\* findBooleanValue: the first byte that is 0x01 or 0x00 decides.
FindBooleanValue(bytes) ==
  LET hits == {p \in 1..Len(bytes) : bytes[p] \in {0, 1}}
  IN  IF hits = {} THEN FALSE
      ELSE bytes[CHOOSE a \in hits : \A b \in hits : a <= b] = 1

\* findColorValue: the r, g, b of the first four bytes, "#ffffff" if fewer.
FindColorValue(bytes) ==
  IF Len(bytes) >= 4 THEN <<bytes[2], bytes[3], bytes[4]>> ELSE <<255, 255, 255>>


\* String(n) for a natural number, as ASCII digits.
RECURSIVE Decimal(_)
Decimal(n) == IF n < 10 THEN <<48 + n>> ELSE Decimal(n \div 10) \o <<48 + (n % 10)>>

RECURSIVE Pow2(_)
Pow2(k) == IF k = 0 THEN 1 ELSE 2 * Pow2(k - 1)

\* Math.round of a float within (-1e6, 1e6): floor(x + 1/2), where x is
\* (2^23 + fraction) / 2^(150 - exponent) for a normal float.
RoundFloat(f) ==
  LET exponent == f.mag \div 8388608
      m        == 8388608 + (f.mag % 8388608)
      shift    == 150 - exponent
  IN  IF exponent = 0 \/ shift >= 25 THEN 0
      ELSE IF ~f.neg THEN (m + Pow2(shift - 1)) \div Pow2(shift)
      ELSE -((m - Pow2(shift - 1) + Pow2(shift) - 1) \div Pow2(shift))

\* a || b on floats and on integers: 0 and -0 are falsy.
FloatOr(f, default) == IF IsZeroFloat(f) THEN default ELSE f
IntOr(n, default)   == IF n = 0 THEN default ELSE n
IntVal(n)              == [t |-> "int", v |-> n]

\* Math.min and Math.max of two floats within (-1e6, 1e6).
FloatKey(f)    == IF f.neg THEN -f.mag ELSE f.mag
FloatMin(a, b) == IF FloatKey(a) < FloatKey(b) \/ (FloatKey(a) = FloatKey(b) /\ a.neg)
                  THEN a ELSE b
FloatMax(a, b) == IF FloatKey(a) > FloatKey(b) \/ (FloatKey(a) = FloatKey(b) /\ ~a.neg)
                  THEN a ELSE b

NoParameter == [type |-> "none"]

\* name || `Label ${position}`
NameOr(name, ct, component) ==
  IF name # << >> THEN name ELSE ct.label \o Decimal(component.position)

\* ParameterOf with the id taken from the start of the component's window.
ParameterOf_WindowId(ct, component, name, value) ==
  [id            |-> <<ct.id, component.dataStart>>,
   name          |-> NameOr(name, ct, component),
   type          |-> ct.type,
   value         |-> value,
   componentType |-> ct.name]

ParameterOf(ct, component, name, value) ==
  [id            |-> <<ct.id, component.position>>,
   name          |-> NameOr(name, ct, component),
   type          |-> ct.type,
   value         |-> value,
   componentType |-> ct.name]

\* extractSliderData, and parseNumberSlider or parseIntegerSlider on it.
ParseSlider(buf, ct, component) ==
  LET area   == SearchArea(buf, component, SearchRadius)
      floats == FindFloatValues(area)
      step   == IF Len(floats) >= 4 THEN FloatOr(floats[4], F_One) ELSE F_One
  IN  IF Len(floats) < 3 THEN NoParameter
      ELSE IF ct.parser = "slider"
      THEN [ParameterOf(ct, component, FindComponentName(area),
                        FloatOr(floats[1], F_Zero))
              EXCEPT !.componentType = "Number Slider"]
           @@ [min  |-> FloatOr(floats[2], F_Zero),
               max  |-> FloatOr(floats[3], F_Hundred),
               step |-> FloatOr(step, F_One)]
      ELSE [ParameterOf(ct, component, FindComponentName(area),
                        IntVal(IntOr(RoundFloat(floats[1]), 0)))
              EXCEPT !.componentType = "Integer Slider"]
           @@ [min  |-> IntVal(IntOr(RoundFloat(floats[2]), 0)),
               max  |-> IntVal(IntOr(RoundFloat(floats[3]), 100)),
               step |-> IntVal(IntOr(Max(1, RoundFloat(step)), 1))]

\* extractPanelData, extractToggleData, extractColorData and their parsers:
\* these return a parameter for every candidate.
ParsePanel(buf, ct, component) ==
  LET area == SearchArea(buf, component, SearchRadius)
  IN  ParameterOf(ct, component, FindComponentName(area),
                  [t |-> "text", v |-> FindTextContent(area)])

ParseToggle(buf, ct, component) ==
  LET area == SearchArea(buf, component, SearchRadius)
  IN  ParameterOf(ct, component, FindComponentName(area),
                  [t |-> "bool", v |-> FindBooleanValue(area)])

ParseColor(buf, ct, component) ==
  LET area == SearchArea(buf, component, SearchRadius)
  IN  ParameterOf(ct, component, FindComponentName(area),
                  [t |-> "rgb", v |-> FindColorValue(area)])

\* extractPointData / extractVectorData and their parsers.
ParseXyz(buf, ct, component) ==
  LET area   == SearchArea(buf, component, SearchRadius)
      floats == FindFloatValues(area)
  IN  IF Len(floats) < 3 THEN NoParameter
      ELSE ParameterOf(ct, component, FindComponentName(area),
                       [t |-> "xyz", x |-> floats[1], y |-> floats[2],
                        z |-> floats[3]])

\* extractDomainData and parseDomainParameter.
ParseDomain(buf, ct, component) ==
  LET area   == SearchArea(buf, component, SearchRadius)
      floats == FindFloatValues(area)
  IN  IF Len(floats) < 2 THEN NoParameter
      ELSE ParameterOf(ct, component, FindComponentName(area),
                       [t |-> "range", min |-> FloatMin(floats[1], floats[2]),
                        max |-> FloatMax(floats[1], floats[2])])

\* extractGeometryData and the curve, surface, brep and mesh parsers: the
\* value is `${type}_data` if a marker of the type is in the window, else null.
ParseGeometry(buf, ct, component) ==
  LET window == Slice(buf, component.dataStart, component.dataEnd)
      has    == \E marker \in GeometryMarkers(ct.type) : Find(window, marker, FALSE) # -1
  IN  ParameterOf(ct, component, FindComponentName(Flat(window)),
                  IF has THEN [t |-> "data", v |-> ct.type] ELSE [t |-> "null"])

ParseComponent(buf, ct, component) ==
  CASE ct.parser \in {"slider", "intslider"} -> ParseSlider(buf, ct, component)
    [] ct.parser = "panel"    -> ParsePanel(buf, ct, component)
    [] ct.parser = "toggle"   -> ParseToggle(buf, ct, component)
    [] ct.parser = "color"    -> ParseColor(buf, ct, component)
    [] ct.parser = "xyz"      -> ParseXyz(buf, ct, component)
    [] ct.parser = "domain"   -> ParseDomain(buf, ct, component)
    [] ct.parser = "geometry" -> ParseGeometry(buf, ct, component)

\* The inner loop of extractParametersFromDocument, over one component type.
RECURSIVE ParseComponents(_, _, _)
ParseComponents(buf, ct, components) ==
  IF components = << >> THEN << >>
  ELSE LET param == ParseComponent(buf, ct, Head(components))
       IN  (IF param = NoParameter THEN << >> ELSE <<param>>)
           \o ParseComponents(buf, ct, Tail(components))

RECURSIVE ParametersOfTypes(_, _)
ParametersOfTypes(buf, types) ==
  IF types = << >> THEN << >>
  ELSE ParseComponents(buf, Head(types), FindComponentsByGuid(buf, Head(types).guid))
       \o ParametersOfTypes(buf, Tail(types))

ExtractParametersFromDocument(buf) == ParametersOfTypes(buf, ComponentTypes)

\* extractParametersFromBinary: [] when no document structure is found.
ExtractParametersFromBinary(buf) ==
  IF FindGrasshopperDocument(buf, SkipBinaryHeader(buf)) = NullDocument THEN << >>
  ELSE ExtractParametersFromDocument(buf)


(***************************************************************************)
(* buffer.toString('utf8'): the decoded text, kept as its UTF-8 bytes.     *)
(* A well-formed sequence stands for itself; a lead byte with the valid    *)
(* continuation bytes that follow it, or a byte that can start nothing,    *)
(* becomes U+FFFD (EF BF BD) and decoding resumes at the next byte.        *)
(***************************************************************************)
Replacement == <<239, 191, 189>>

RECURSIVE GoodContinuations(_, _, _, _, _)
GoodContinuations(bytes, i, need, lower, upper) ==
  IF need = 0 \/ i > Len(bytes) \/ bytes[i] < lower \/ bytes[i] > upper THEN 0
  ELSE 1 + GoodContinuations(bytes, i + 1, need - 1, 128, 191)

Need(b) ==
  IF b < 128 THEN 0
  ELSE IF b >= 194 /\ b <= 223 THEN 1
  ELSE IF b >= 224 /\ b <= 239 THEN 2
  ELSE IF b >= 240 /\ b <= 244 THEN 3
  ELSE -1
LowerBound(b) == IF b = 224 THEN 160 ELSE IF b = 240 THEN 144 ELSE 128
UpperBound(b) == IF b = 237 THEN 159 ELSE IF b = 244 THEN 143 ELSE 191

\* The continuation bytes that the lead byte at j takes with it.
Taken(bytes, j) ==
  GoodContinuations(bytes, j + 1, Need(bytes[j]), LowerBound(bytes[j]), UpperBound(bytes[j]))

\* The byte at i belongs to the sequence that a lead byte before it began.
IsTaken(bytes, i) ==
  \E j \in (i - 3)..(i - 1) : j >= 1 /\ Need(bytes[j]) >= 1 /\ Taken(bytes, j) >= i - j

\* What the decoder gives at the byte at i.
Decoded(bytes, i, need) ==
  IF IsTaken(bytes, i) THEN << >>
  ELSE IF need = 0 THEN <<bytes[i]>>
  ELSE IF need = -1 THEN Replacement
  ELSE IF Taken(bytes, i) = need THEN SubSeq(bytes, i, i + need)
  ELSE Replacement

RECURSIVE Utf8Between(_, _, _)
Utf8Between(bytes, first, last) ==
  IF first > last THEN << >>
  ELSE IF first = last THEN Decoded(bytes, first, Need(bytes[first]))
  ELSE Utf8Between(bytes, first, (first + last) \div 2)
       \o Utf8Between(bytes, (first + last) \div 2 + 1, last)

Utf8Flat(bytes) == Utf8Between(bytes, 1, Len(bytes))

\* A byte below 0x80 stands for itself and a byte that occurs in no UTF-8
\* sequence for U+FFFD, whatever is around it; so do the bytes of a period
\* made of well-formed sequences, which is decoded to itself.
NeverInSequence == {192, 193} \cup (245..255)
IsContextFree(s) ==
  \/ \A j \in 1..Len(s.b) : s.b[j] < 128 \/ s.b[j] \in NeverInSequence
  \/ Utf8Flat(s.b) = s.b

\* Runs of context-free bytes stay runs; the bytes between them are decoded
\* one by one.
RECURSIVE Utf8Runs(_, _)
Utf8Runs(buf, pending) ==
  LET flushed == IF pending = << >> THEN << >> ELSE <<Seg(Utf8Flat(pending), 1)>>
  IN  IF buf = << >> THEN flushed
      ELSE IF IsContextFree(Head(buf))
      THEN flushed \o <<Seg(Utf8Flat(Head(buf).b), Head(buf).n)>>
           \o Utf8Runs(Tail(buf), << >>)
      ELSE Utf8Runs(Tail(buf), pending \o Repeat(Head(buf).b, Head(buf).n))

\* buffer.toString('utf8', 0, Math.min(buffer.length, k))
Utf8Text(buf, k) == Utf8Runs(Norm(Take(buf, Min(BufLen(buf), k))), << >>)

(***************************************************************************)
(* The four tag patterns of the text pass,                                 *)
(*   /<item.*?type=".*?Kind.*?".*?name="([^"]+)".*?value="([^"]+)"/gi      *)
(* matched as the regular expression engine does: each lazy gap takes the  *)
(* nearest candidate first and moves on to the next one when the rest of   *)
(* the pattern fails.  A gap stops at a line terminator; the text between  *)
(* two quotes may hold any character but a quote.                          *)
(***************************************************************************)
S_Item       == <<60, 105, 116, 101, 109>>
S_TypeEq     == <<116, 121, 112, 101, 61, 34>>
S_NameEq     == <<110, 97, 109, 101, 61, 34>>
S_ValueEq    == <<118, 97, 108, 117, 101, 61, 34>>
S_Quote      == <<34>>
K_Number     == <<78, 117, 109, 98, 101, 114>>
K_Boolean    == <<66, 111, 111, 108, 101, 97, 110>>
K_Text       == <<84, 101, 120, 116>>
K_Color      == <<67, 111, 108, 111, 114>>
S_True       == <<116, 114, 117, 101>>
LineTerminators == {<<10>>, <<13>>, <<226, 128, 168>>, <<226, 128, 169>>}

FindFrom(text, pat, from, ci) == Offset(Find(Drop(text, from), pat, ci), from)

\* The offset of the first line terminator at or after from, or the length.
LeastOr(ends, length) == IF ends = {} THEN length ELSE LeastOf(ends)
LineEnd(text, from) ==
  LeastOr({FindFrom(text, t, from, FALSE) : t \in LineTerminators} \ {-1}, BufLen(text))

\* .*?value="([^"]+)" from offset from; the offset after the match, or -1:
\* v is where value=" is found and quote where the next quote is.
RECURSIVE MatchValue(_, _, _)
MatchValueQuote(text, v, quote, limit) ==
  IF quote = -1 THEN -1
  ELSE IF quote > v + Len(S_ValueEq) THEN quote + 1
  ELSE MatchValue(text, v + 1, limit)

MatchValueAt(text, v, limit) ==
  IF v = -1 \/ v >= limit THEN -1
  ELSE MatchValueQuote(text, v, FindFrom(text, S_Quote, v + Len(S_ValueEq), FALSE), limit)

MatchValue(text, from, limit) ==
  MatchValueAt(text, FindFrom(text, S_ValueEq, from, TRUE), limit)

\* .*?name="([^"]+)" and the rest of the pattern: n is where name=" is found,
\* quote where the next quote is and rest where the rest of the pattern ends.
RECURSIVE MatchName(_, _, _)
MatchNameRest(text, n, rest, limit) ==
  IF rest # -1 THEN rest ELSE MatchName(text, n + 1, limit)

MatchNameQuote(text, n, quote, limit) ==
  IF quote = -1 THEN -1
  ELSE IF quote > n + Len(S_NameEq)
  THEN MatchNameRest(text, n, MatchValue(text, quote + 1, LineEnd(text, quote + 1)), limit)
  ELSE MatchName(text, n + 1, limit)

MatchNameAt(text, n, limit) ==
  IF n = -1 \/ n >= limit THEN -1
  ELSE MatchNameQuote(text, n, FindFrom(text, S_Quote, n + Len(S_NameEq), FALSE), limit)

MatchName(text, from, limit) ==
  MatchNameAt(text, FindFrom(text, S_NameEq, from, TRUE), limit)

\* .*?" closing the type attribute, and the rest of the pattern.
RECURSIVE MatchTypeEnd(_, _, _)
MatchTypeEndRest(text, quote, rest, limit) ==
  IF rest # -1 THEN rest ELSE MatchTypeEnd(text, quote + 1, limit)

MatchTypeEndAt(text, quote, limit) ==
  IF quote = -1 \/ quote >= limit THEN -1
  ELSE MatchTypeEndRest(text, quote, MatchName(text, quote + 1, limit), limit)

MatchTypeEnd(text, from, limit) ==
  MatchTypeEndAt(text, FindFrom(text, S_Quote, from, FALSE), limit)

\* .*?Kind and the rest of the pattern.
RECURSIVE MatchKind(_, _, _, _)
MatchKindRest(text, kind, k, rest, limit) ==
  IF rest # -1 THEN rest ELSE MatchKind(text, kind, k + 1, limit)

MatchKindAt(text, kind, k, limit) ==
  IF k = -1 \/ k >= limit THEN -1
  ELSE MatchKindRest(text, kind, k, MatchTypeEnd(text, k + Len(kind), limit), limit)

MatchKind(text, kind, from, limit) ==
  MatchKindAt(text, kind, FindFrom(text, kind, from, TRUE), limit)

\* .*?type=" and the rest of the pattern.
RECURSIVE MatchType(_, _, _, _)
MatchTypeRest(text, kind, t, rest, limit) ==
  IF rest # -1 THEN rest ELSE MatchType(text, kind, t + 1, limit)

MatchTypeAt(text, kind, t, limit) ==
  IF t = -1 \/ t >= limit THEN -1
  ELSE MatchTypeRest(text, kind, t, MatchKind(text, kind, t + Len(S_TypeEq), limit), limit)

MatchType(text, kind, from, limit) ==
  MatchTypeAt(text, kind, FindFrom(text, S_TypeEq, from, TRUE), limit)

\* String.prototype.match with the g flag: the matches from left to right,
\* each search resuming where the last match ended.
RECURSIVE ItemMatches(_, _, _)
ItemMatchesEnd(text, kind, item, end) ==
  IF end = -1 THEN ItemMatches(text, kind, item + 1)
  ELSE <<Flat(Slice(text, item, end))>> \o ItemMatches(text, kind, end)

ItemMatchesAt(text, kind, item, open) ==
  IF item = -1 THEN << >>
  ELSE ItemMatchesEnd(text, kind, item, MatchType(text, kind, open, LineEnd(text, open)))

ItemMatchesFrom(text, kind, item) == ItemMatchesAt(text, kind, item, item + Len(S_Item))

ItemMatches(text, kind, from) ==
  ItemMatchesFrom(text, kind, FindFrom(text, S_Item, from, TRUE))

\* match.match(/attr="([^"]+)"/i)[1] on one matched tag.
RECURSIVE Attribute(_, _, _)
AttributeQuote(tag, attr, a, quote) ==
  IF quote = -1 THEN << >>
  ELSE IF quote > a + Len(attr) THEN SubSeq(tag, a + Len(attr) + 1, quote)
  ELSE Attribute(tag, attr, a + 1)

AttributeAt(tag, attr, a) ==
  IF a = -1 THEN << >>
  ELSE AttributeQuote(tag, attr, a, FindFrom(<<Seg(tag, 1)>>, S_Quote, a + Len(attr), FALSE))

Attribute(tag, attr, from) ==
  AttributeAt(tag, attr, FindFrom(<<Seg(tag, 1)>>, attr, from, TRUE))


(***************************************************************************)
(* parseFloat on decimal strings: leading white space, a sign, digits and  *)
(* a fraction.  A number is kept as its sign, its integer part and the     *)
(* digits of its fraction without trailing zeros.  Exponents, Infinity and *)
(* numbers of more than MaxIntDigits integer digits or MaxFracDigits       *)
(* fraction digits are outside the domain of the operator.                 *)
(***************************************************************************)
MaxIntDigits  == 9
MaxFracDigits == 6

Num(neg, int, frac) == [t |-> "num", neg |-> neg, int |-> int, frac |-> frac]
N_Zero == Num(FALSE, 0, << >>)
N_NaN  == [t |-> "nan"]
S_Infinity == <<73, 110, 102, 105, 110, 105, 116, 121>>

RECURSIVE DigitsEnd(_, _)
DigitsEnd(bytes, i) ==
  IF i <= Len(bytes) /\ IsDigit(bytes[i]) THEN DigitsEnd(bytes, i + 1) ELSE i

RECURSIVE ToNat(_)
ToNat(digits) ==
  IF digits = << >> THEN 0
  ELSE 10 * ToNat(SubSeq(digits, 1, Len(digits) - 1)) + (digits[Len(digits)] - 48)

RECURSIVE DropZerosRight(_)
DropZerosRight(digits) ==
  IF digits # << >> /\ digits[Len(digits)] = 48
  THEN DropZerosRight(SubSeq(digits, 1, Len(digits) - 1)) ELSE digits

RECURSIVE DropZerosLeft(_)
DropZerosLeft(digits) ==
  IF digits # << >> /\ digits[1] = 48 THEN DropZerosLeft(Tail(digits)) ELSE digits

HasDot(bytes, intEnd) == intEnd <= Len(bytes) /\ bytes[intEnd] = 46

\* The number whose digits start at first, with its integer part ending
\* before intEnd and its fraction before fracEnd.
ParseDigits(bytes, first, intEnd, fracEnd) ==
  LET int      == DropZerosLeft(SubSeq(bytes, first, intEnd - 1))
      frac     == DropZerosRight(SubSeq(bytes, intEnd + 1, fracEnd - 1))
      noDigits == intEnd = first /\ (~HasDot(bytes, intEnd) \/ fracEnd = intEnd + 1)
      exponent == /\ ~noDigits
                  /\ fracEnd <= Len(bytes) /\ bytes[fracEnd] \in {69, 101}
                  /\ \/ DigitsEnd(bytes, fracEnd + 1) > fracEnd + 1
                     \/ /\ fracEnd + 1 <= Len(bytes) /\ bytes[fracEnd + 1] \in {43, 45}
                        /\ DigitsEnd(bytes, fracEnd + 2) > fracEnd + 2
      infinity == MatchAt(bytes, S_Infinity, first - 1, FALSE)
  IN  CASE noDigits /\ ~infinity -> N_NaN
        [] /\ ~noDigits /\ ~exponent
           /\ Len(int) <= MaxIntDigits /\ Len(frac) <= MaxFracDigits
           -> Num(first = 2 /\ bytes[1] = 45, ToNat(int), frac)

ParseFraction(bytes, first, intEnd) ==
  ParseDigits(bytes, first, intEnd,
              IF HasDot(bytes, intEnd) THEN DigitsEnd(bytes, intEnd + 1) ELSE intEnd)

ParseInteger(bytes, first) == ParseFraction(bytes, first, DigitsEnd(bytes, first))

ParseSign(bytes) ==
  ParseInteger(bytes, IF bytes # << >> /\ bytes[1] \in {43, 45} THEN 2 ELSE 1)

ParseFloat(string) == ParseSign(TrimLeft(string))

\* parseFloat(x) || 0
OrZero(v) == IF v = N_NaN \/ (v.int = 0 /\ v.frac = << >>) THEN N_Zero ELSE v
ParseFloatOrZero(string) == OrZero(ParseFloat(string))

ToLowerCase(string) == [j \in 1..Len(string) |-> Lower(string[j])]

\* The parameter the text pass makes of one matched tag.  The range of a
\* number parameter (min, max, step) is not kept: nothing reads it.
TextParameter(kind, index, name, value) ==
  CASE kind = "number" ->
         [id |-> <<"number", index>>, name |-> name, type |-> "number",
          value |-> ParseFloatOrZero(value), componentType |-> "NumberSlider"]
    [] kind = "boolean" ->
         [id |-> <<"boolean", index>>, name |-> name, type |-> "boolean",
          value |-> [t |-> "bool", v |-> ToLowerCase(value) = S_True],
          componentType |-> "BooleanToggle"]
    [] kind = "text" ->
         [id |-> <<"text", index>>, name |-> name, type |-> "text",
          value |-> [t |-> "text", v |-> value], componentType |-> "TextPanel"]
    [] kind = "color" ->
         [id |-> <<"color", index>>, name |-> name, type |-> "color",
          value |-> [t |-> "text", v |-> value], componentType |-> "ColourSwatch"]

TextParameterIf(kind, index, name, value) ==
  IF name # << >> /\ value # << >> THEN <<TextParameter(kind, index, name, value)>>
  ELSE << >>

\* The forEach of the text pass over the matches of one kind.
RECURSIVE TextParameters(_, _, _)
TextParameters(tags, kind, index) ==
  IF tags = << >> THEN << >>
  ELSE TextParameterIf(kind, index, Attribute(Head(tags), S_NameEq, 0),
                       Attribute(Head(tags), S_ValueEq, 0))
       \o TextParameters(Tail(tags), kind, index + 1)

\* The four regular expression passes of extractParametersFromText.
TextPasses(fileContent) ==
  TextParameters(ItemMatches(fileContent, K_Number, 0), "number", 0)
  \o TextParameters(ItemMatches(fileContent, K_Boolean, 0), "boolean", 0)
  \o TextParameters(ItemMatches(fileContent, K_Text, 0), "text", 0)
  \o TextParameters(ItemMatches(fileContent, K_Color, 0), "color", 0)

TextPass(buf) == TextPasses(Utf8Text(buf, TextSample))

(***************************************************************************)
(* extractFromBinaryPatterns: the matches of a hex pattern in the hex      *)
(* dump of the whole buffer.  A match starts on a byte or in the middle of *)
(* one; no two matches of the same pattern overlap.                        *)
(***************************************************************************)
H_NumberSlider   == <<78, 117, 109, 98, 101, 114, 83, 108, 105, 100, 101, 114>>
H_BooleanToggle  == <<66, 111, 111, 108, 101, 97, 110, 84, 111, 103, 103, 108, 101>>
H_NumberSliderOdd  == <<231, 86, 214, 38, 87, 37, 54, 198, 150, 70, 87>>   \* after a nibble 4, before a nibble 2
H_BooleanToggleOdd == <<38, 246, 246, 198, 86, 22, 229, 70, 246, 118, 118, 198>>   \* after a nibble 4, before a nibble 5

HexMatches(buf, even, odd, before, after) ==
  Len(AllIndexOf(buf, even, 0))
  + Cardinality({j \in 1..Len(AllIndexOf(buf, odd, 0)) :
       LET i == AllIndexOf(buf, odd, 0)[j]
       IN  /\ i >= 1 /\ i + Len(odd) < BufLen(buf)
           /\ ByteAt(buf, i - 1) % 16 = before
           /\ ByteAt(buf, i + Len(odd)) \div 16 = after})

S_Parameter == <<80, 97, 114, 97, 109, 101, 116, 101, 114, 32>>
S_ToggleName == <<84, 111, 103, 103, 108, 101, 32>>

ExtractFromBinaryPatterns(buf) ==
  [index \in 1..HexMatches(buf, H_NumberSlider, H_NumberSliderOdd, 4, 2) |->
     [id |-> <<"binary_number", index - 1>>, name |-> S_Parameter \o Decimal(index),
      type |-> "number", value |-> Num(FALSE, 50, << >>),
      componentType |-> "NumberSlider"]]
  \o
  [index \in 1..HexMatches(buf, H_BooleanToggle, H_BooleanToggleOdd, 4, 5) |->
     [id |-> <<"binary_boolean", index - 1>>, name |-> S_ToggleName \o Decimal(index),
      type |-> "boolean", value |-> [t |-> "bool", v |-> TRUE],
      componentType |-> "BooleanToggle"]]


(***************************************************************************)
(* Values as text: `${param.value}` and JSON.stringify(param.value).       *)
(* Number-to-string conversion is defined on the numbers whose shortest    *)
(* decimal form the model can compute: integers, the decimal numbers of    *)
(* ParseFloat, and the floats that hold an integer.                        *)
(***************************************************************************)
IntText(n) == IF n < 0 THEN <<45>> \o Decimal(-n) ELSE Decimal(n)

FloatIsInteger(f) ==
  LET exponent == f.mag \div 8388608
  IN  \/ IsZeroFloat(f)
      \/ /\ exponent >= 127 /\ exponent <= 150
         /\ (f.mag % 8388608) % Pow2(150 - exponent) = 0

NumberText(value) ==
  CASE value.t = "int" -> IntText(value.v)
    [] value.t = "num" ->
         (IF value.neg THEN <<45>> ELSE << >>) \o Decimal(value.int)
         \o (IF value.frac = << >> THEN << >> ELSE <<46>> \o value.frac)
    [] value.t = "float" /\ FloatIsInteger(value) -> IntText(RoundFloat(value))

HexDigit(d) == IF d < 10 THEN 48 + d ELSE 87 + d
Hex2(b)     == <<HexDigit(b \div 16), HexDigit(b % 16)>>
ColorText(rgb) == <<35>> \o Hex2(rgb[1]) \o Hex2(rgb[2]) \o Hex2(rgb[3])

S_TrueText  == <<116, 114, 117, 101>>
S_FalseText == <<102, 97, 108, 115, 101>>
S_NullText  == <<110, 117, 108, 108>>
S_ObjectText == <<91, 111, 98, 106, 101, 99, 116, 32, 79, 98, 106, 101, 99, 116, 93>>
S_DataSuffix == <<95, 100, 97, 116, 97>>
TypeText(type) ==
  CASE type = "curve"   -> <<99, 117, 114, 118, 101>>
    [] type = "surface" -> <<115, 117, 114, 102, 97, 99, 101>>
    [] type = "brep"    -> <<98, 114, 101, 112>>
    [] type = "mesh"    -> <<109, 101, 115, 104>>

\* `${value}`
ValueText(value) ==
  CASE value.t \in {"int", "num", "float"} -> NumberText(value)
    [] value.t = "bool"  -> IF value.v THEN S_TrueText ELSE S_FalseText
    [] value.t = "text"  -> value.v
    [] value.t = "rgb"   -> ColorText(value.v)
    [] value.t = "data"  -> TypeText(value.v) \o S_DataSuffix
    [] value.t = "null"  -> S_NullText
    [] value.t \in {"xyz", "range"} -> S_ObjectText

\* JSON.stringify of a string: quotes, backslashes and control characters
\* are escaped.
JsonChar(c) ==
  CASE c = 34 -> <<92, 34>>
    [] c = 92 -> <<92, 92>>
    [] c = 8  -> <<92, 98>>
    [] c = 9  -> <<92, 116>>
    [] c = 10 -> <<92, 110>>
    [] c = 12 -> <<92, 102>>
    [] c = 13 -> <<92, 114>>
    [] c < 32 /\ c \notin {8, 9, 10, 12, 13} -> <<92, 117, 48, 48>> \o Hex2(c)
    [] OTHER  -> <<c>>

RECURSIVE JsonChars(_)
JsonChars(string) ==
  IF string = << >> THEN << >> ELSE JsonChar(Head(string)) \o JsonChars(Tail(string))
JsonString(string) == <<34>> \o JsonChars(string) \o <<34>>

J_X   == <<123, 34, 120, 34, 58>>
J_Y   == <<44, 34, 121, 34, 58>>
J_Z   == <<44, 34, 122, 34, 58>>
J_Min == <<123, 34, 109, 105, 110, 34, 58>>
J_Max == <<44, 34, 109, 97, 120, 34, 58>>

JsonValue(value) ==
  CASE value.t \in {"int", "num", "float"} -> NumberText(value)
    [] value.t \in {"bool", "null"} -> ValueText(value)
    [] value.t \in {"text", "rgb", "data"} -> JsonString(ValueText(value))
    [] value.t = "xyz" ->
         J_X \o NumberText(value.x) \o J_Y \o NumberText(value.y)
         \o J_Z \o NumberText(value.z) \o <<125>>
    [] value.t = "range" ->
         J_Min \o NumberText(value.min) \o J_Max \o NumberText(value.max) \o <<125>>

J_Name  == <<123, 34, 110, 97, 109, 101, 34, 58>>
J_Value == <<44, 34, 118, 97, 108, 117, 101, 34, 58>>
J_Head  == <<123, 34, 109, 111, 100, 105, 102, 105, 101, 100, 66, 121, 34, 58, 34, 71, 114, 97, 115, 115, 104, 111, 112, 112, 101, 114, 32, 86, 105, 101, 119, 101, 114, 34, 44, 34, 109, 111, 100, 105, 102, 105, 101, 100, 65, 116, 34, 58>>
J_Parameters == <<44, 34, 112, 97, 114, 97, 109, 101, 116, 101, 114, 115, 34, 58, 91>>
J_Tail  == <<93, 125>>
S_CommentOpen  == <<10, 60, 33, 45, 45, 32, 77, 111, 100, 105, 102, 105, 101, 100, 32, 98, 121, 32, 71, 114, 97, 115, 115, 104, 111, 112, 112, 101, 114, 32, 86, 105, 101, 119, 101, 114, 58, 32>>
S_CommentClose == <<32, 45, 45, 62>>

RECURSIVE JsonParameters(_)
JsonParameters(parameters) ==
  IF parameters = << >> THEN << >>
  ELSE J_Name \o JsonString(Head(parameters).name)
       \o J_Value \o JsonValue(Head(parameters).value) \o <<125>>
       \o (IF Len(parameters) > 1 THEN <<44>> ELSE << >>)
       \o JsonParameters(Tail(parameters))

\* metadataComment, for the time stamp now
MetadataComment(parameters, now) ==
  S_CommentOpen \o J_Head \o JsonString(now) \o J_Parameters
  \o JsonParameters(parameters) \o J_Tail \o S_CommentClose


(***************************************************************************)
(* content.replace(new RegExp(`name="${name}"[^>]*value="[^"]*"`, 'gi'),   *)
(*                 `name="${name}" value="${value}"`)                      *)
(* The name goes into the pattern as it is and the value into the          *)
(* replacement as it is: the operator is defined on names without regular  *)
(* expression syntax and on replacements without a dollar sign.            *)
(***************************************************************************)
RegExpSyntax == {92, 94, 36, 46, 124, 63, 42, 43, 40, 41, 91, 93, 123, 125}
IsLiteral(string) == \A j \in 1..Len(string) : string[j] \notin RegExpSyntax
S_Close   == <<62>>
S_ValueIs == <<32, 118, 97, 108, 117, 101, 61, 34>>

\* The offsets in [from, limit) at which value=" occurs, in ascending order.
RECURSIVE ValueOffsets(_, _, _)
ValueOffsetsAt(text, v, limit) ==
  IF v = -1 \/ v + Len(S_ValueEq) > limit THEN << >>
  ELSE <<v>> \o ValueOffsets(text, v + 1, limit)

ValueOffsets(text, from, limit) ==
  ValueOffsetsAt(text, FindFrom(text, S_ValueEq, from, TRUE), limit)

\* [^>]*value="[^"]*" from offset from: [^>]* is greedy, so the last
\* value=" before the next > that still has a closing quote is taken.  The
\* offset after the match, or -1.
QuoteAfter(text, v) == FindFrom(text, S_Quote, v + Len(S_ValueEq), FALSE)
GreatestOf(set) == CHOOSE j \in set : \A k \in set : k <= j
MatchLast(text, values, closed) ==
  IF closed = {} THEN -1 ELSE QuoteAfter(text, values[GreatestOf(closed)]) + 1

MatchClosed(text, values) ==
  MatchLast(text, values, {j \in 1..Len(values) : QuoteAfter(text, values[j]) # -1})

MatchBefore(text, from, close) ==
  MatchClosed(text, ValueOffsets(text, from, IF close = -1 THEN BufLen(text) ELSE close))

MatchAssignment(text, from) == MatchBefore(text, from, FindFrom(text, S_Close, from, FALSE))

\* The text from offset from on, with every match at or after scan replaced:
\* n is where the name is found and end where its match ends.
RECURSIVE ReplaceFrom(_, _, _, _, _)
ReplaceEnd(text, pattern, replacement, from, n, end) ==
  IF end = -1 THEN ReplaceFrom(text, pattern, replacement, from, n + 1)
  ELSE Slice(text, from, n) \o <<Seg(replacement, 1)>>
       \o ReplaceFrom(text, pattern, replacement, end, end)

ReplaceAt(text, pattern, replacement, from, n) ==
  IF n = -1 THEN Drop(text, from)
  ELSE ReplaceEnd(text, pattern, replacement, from, n,
                  MatchAssignment(text, n + Len(pattern)))

ReplaceFrom(text, pattern, replacement, from, scan) ==
  ReplaceAt(text, pattern, replacement, from, FindFrom(text, pattern, scan, TRUE))

ReplaceBy(text, name, pattern, replacement) ==
  CASE IsLiteral(name) /\ 36 \notin {replacement[j] : j \in 1..Len(replacement)}
       -> Norm(ReplaceFrom(text, pattern, replacement, 0, 0))

ReplaceValue(text, param) ==
  ReplaceBy(text, param.name, S_NameEq \o param.name \o S_Quote,
            S_NameEq \o param.name \o S_Quote \o S_ValueIs \o ValueText(param.value)
            \o S_Quote)

\* parameters.forEach(param => modifiedContent = modifiedContent.replace(..))
RECURSIVE ReplaceValues(_, _)
ReplaceValues(text, parameters) ==
  IF parameters = << >> THEN text
  ELSE ReplaceValues(ReplaceValue(text, Head(parameters)), Tail(parameters))

\* generateModifiedFile: the first TextSample bytes decoded, edited and
\* encoded again, and the metadata comment after them.
GenerateModifiedFile(definitionBuffer, parameters, now) ==
  LET fileContent     == Utf8Text(definitionBuffer, TextSample)
      modifiedContent == ReplaceValues(fileContent, parameters)
  IN  Norm(modifiedContent \o <<Seg(MetadataComment(parameters, now), 1)>>)

(***************************************************************************)
(* Errors, by their messages.  An error that wraps another keeps it as its *)
(* cause.                                                                  *)
(***************************************************************************)
E_InvalidFormat == "Invalid Grasshopper file format"
E_NoParameters  == "No parameters found in .gh file. This may not be a valid Grasshopper definition or the file format is not supported."
E_Extract       == "Failed to extract parameters from .gh file"
E_Simple        == "Failed to parse .gh file. This may not be a valid Grasshopper definition."

Error(message)        == <<message>>
Wrap(message, error)  == <<message>> \o error

\* parseDefinitionSimple: throws, whatever it is given.
ParseDefinitionSimple(buf, caught) == Error(E_Simple)


(***************************************************************************)
(* Uploaded files.  Each is a short run-length description of a buffer;    *)
(* together they reach every branch of the validator and of the three      *)
(* extraction stages, and lengths on both sides of every threshold.        *)
(***************************************************************************)
ShortPad == 150        \* padding of a small file
LongPad  == 12000      \* padding that reaches beyond the text sample
HugeRun  == 104852600  \* padding of a file of 100 MiB
MaxDownloads == 1      \* downloads of a modified file per upload

S_XmlProlog == <<60, 63, 120, 109, 108, 32, 118, 101, 114, 115, 105, 111, 110, 61, 34, 49, 46, 48, 34, 63, 62>>
S_DocTag    == <<60, 71, 72, 95, 68, 111, 99, 117, 109, 101, 110, 116, 62>>
S_NumberItem  == <<60, 105, 116, 101, 109, 32, 116, 121, 112, 101, 61, 34, 71, 72, 95, 78, 117, 109, 98, 101, 114, 34, 32, 110, 97, 109, 101, 61, 34, 87, 105, 100, 116, 104, 34, 32, 118, 97, 108, 117, 101, 61, 34, 53, 34, 62>>
S_BooleanItem == <<60, 105, 116, 101, 109, 32, 116, 121, 112, 101, 61, 34, 66, 111, 111, 108, 101, 97, 110, 34, 32, 110, 97, 109, 101, 61, 34, 67, 108, 111, 115, 101, 100, 34, 32, 117, 110, 105, 116, 61, 34, 110, 111, 110, 101, 34, 32, 118, 97, 108, 117, 101, 61, 34, 84, 114, 117, 101, 34, 47, 62>>
S_TextItem    == <<60, 105, 116, 101, 109, 32, 116, 121, 112, 101, 61, 34, 84, 101, 120, 116, 34, 32, 110, 97, 109, 101, 61, 34, 119, 105, 100, 116, 104, 34, 32, 118, 97, 108, 117, 101, 61, 34, 119, 105, 100, 101, 34, 62>>
S_NumberSliderWord  == <<78, 117, 109, 98, 101, 114, 83, 108, 105, 100, 101, 114>>
S_BooleanToggleWord == <<66, 111, 111, 108, 101, 97, 110, 84, 111, 103, 103, 108, 101>>
S_Newline == <<10>>

Pad(byte, n) == Seg(<<byte>>, n)

\* a number slider within the text sample: the 0x00 header, then zero bytes
\* that are read as the floats of the slider
SliderFile ==
  <<Pad(0, 20), Seg(S_GHDocument, 1), Seg(G_NumberSlider, 1), Pad(255, ShortPad)>>
\* the minimal slider file: the floats 50, 0 and 100 right after the GUID
B_SliderFloats == <<0, 0, 72, 66, 0, 0, 0, 0, 0, 0, 200, 66>>
MinimalSliderFile ==
  <<Pad(0, 20), Seg(S_GHDocument, 1), Seg(G_NumberSlider, 1), Seg(B_SliderFloats, 1),
    Pad(255, ShortPad)>>
\* one GUID under two of its encodings
TwoEncodingFile ==
  <<Pad(0, 20), Seg(S_GHDocument, 1), Seg(G_NumberSlider, 1), Pad(0, 8),
    Seg(ToUpper(NoHyphens(G_NumberSlider)), 1), Pad(255, ShortPad)>>
\* the same component beyond the text sample
LongSliderFile ==
  <<Pad(0, 20), Seg(S_GHDocument, 1), Pad(122, LongPad \div 2), Pad(255, LongPad \div 2),
    Pad(0, 16), Seg(G_NumberSlider, 1), Pad(255, ShortPad)>>
\* an integer slider and a toggle, GUIDs in upper case and without hyphens
TwoComponentFile ==
  <<Pad(0, 20), Seg(S_GHDocument, 1), Seg(ToUpper(G_IntSlider), 1), Pad(1, 8),
    Seg(NoHyphens(G_Toggle), 1), Pad(255, ShortPad)>>
\* no component GUID: the parameters are in tags
TextFile ==
  <<Seg(S_XmlProlog, 1), Seg(S_DocTag, 1), Seg(S_NumberItem, 1), Seg(S_Newline, 1),
    Seg(S_BooleanItem, 1), Pad(255, ShortPad)>>
\* two tags whose names differ in case only
CaseFile ==
  <<Seg(S_XmlProlog, 1), Seg(S_DocTag, 1), Seg(S_NumberItem, 1), Seg(S_Newline, 1),
    Seg(S_TextItem, 1), Pad(255, ShortPad)>>
\* a tag at the start, the document marker beyond the text sample
LongTextFile ==
  <<Seg(S_XmlProlog, 1), Seg(S_System, 1), Seg(S_NumberItem, 1), Pad(255, LongPad \div 2),
    Pad(122, LongPad \div 2), Seg(S_DocTag, 1)>>
\* neither GUID nor tag: the two words of the last-resort scan
WordFile ==
  <<Pad(0, 20), Seg(S_GHDocument, 1), Seg(S_NumberSliderWord, 2),
    Seg(S_BooleanToggleWord, 1), Pad(255, ShortPad)>>
\* a well-formed file without any parameter
EmptyFile == <<Pad(0, 20), Seg(S_GHDocument, 1), Pad(122, 50), Pad(255, ShortPad)>>
\* printable text only, and hardly any printable text
AllTextFile   == <<Seg(S_GHDocument, 1), Seg(S_System, 1), Pad(122, ShortPad)>>
NoTextFile    == <<Pad(0, 20), Seg(S_GHDocument, 1), Pad(255, 2 * ShortPad)>>
\* zero bytes only, more than four fifths of zero bytes, exactly four fifths
ZeroFile       == <<Pad(0, ShortPad)>>
MostlyZeroFile == <<Seg(S_GHDocument, 1), Seg(S_System, 1), Pad(0, 82)>>
FourFifthsFile == <<Seg(S_GHDocument, 1), Seg(S_System, 1), Pad(122, 2), Pad(0, 80)>>
\* no header signature at all, none within the header window, and one that
\* starts on the last byte of the window
NoSignatureFile   == <<Pad(122, ShortPad), Pad(255, 50)>>
LateSignatureFile ==
  <<Pad(122, HeaderWindow \div 2), Pad(255, HeaderWindow \div 2), Seg(S_GHDocument, 1),
    Seg(S_System, 1), Pad(1, 16)>>
EdgeSignatureFile ==
  <<Pad(122, HeaderWindow \div 2), Pad(255, HeaderWindow \div 2 - 1), Seg(S_GHDocument, 1),
    Seg(S_System, 1), Pad(1, 16)>>
\* at the size limit and one byte beyond it
LimitFile ==
  <<Pad(0, 20), Seg(S_GHDocument, 1), Pad(122, 4969), Pad(255, HugeRun)>>
HugeFile  ==
  <<Pad(0, 20), Seg(S_GHDocument, 1), Pad(122, 4970), Pad(255, HugeRun)>>

Files ==
  {SliderFile, MinimalSliderFile, TwoEncodingFile, LongSliderFile, TwoComponentFile, TextFile, CaseFile, LongTextFile,
   WordFile, EmptyFile, AllTextFile, NoTextFile, ZeroFile, MostlyZeroFile,
   FourFifthsFile, NoSignatureFile, LateSignatureFile, EdgeSignatureFile, LimitFile,
   HugeFile}

\* Lengths to which an upload is cut short; -1 leaves it whole.
Cuts == {-1, 0, 99, 100}
Cut(file, k) == IF k = -1 THEN Norm(file) ELSE Norm(Take(file, k))

\* new Date().toISOString()
Instants == {<<50, 48, 50, 52, 45, 48, 49, 45, 48, 49, 84, 48, 48, 58, 48, 48, 58, 48, 48, 46, 48, 48, 48, 90>>,
             <<50, 48, 50, 52, 45, 48, 54, 45, 51, 48, 84, 49, 50, 58, 51, 48, 58, 52, 53, 46, 54, 55, 56, 90>>}


(***************************************************************************)
(* The request fields made of a parameter list.  inputs is a JavaScript    *)
(* object: a function from the field names to the fields, in which a later *)
(* assignment to a name replaces the earlier one.                          *)
(***************************************************************************)
S_ParamPrefix == <<112, 97, 114, 97, 109, 95>>                     \* param_
ArrayVal(list) == [t |-> "array", v |-> list]
BoolVal(v)     == [t |-> "bool", v |-> v]
TextVal(v)     == [t |-> "text", v |-> v]
NullVal        == [t |-> "null"]

\* Is the value one that || passes over: null, false, 0, NaN, ''?
Falsy(value) ==
  CASE value.t \in {"null", "nan"} -> TRUE
    [] value.t = "bool"  -> ~value.v
    [] value.t = "text"  -> value.v = << >>
    [] value.t = "int"   -> value.v = 0
    [] value.t = "num"   -> value.int = 0 /\ value.frac = << >>
    [] value.t = "float" -> value.mag = 0 \/ value.mag > 2139095040
    [] OTHER -> FALSE

ValueOr(value, default) == IF Falsy(value) THEN default ELSE value
ArrayOr(value, default) ==
  IF ValueOr(value, default).t = "array" THEN ValueOr(value, default) ELSE default

Input(type, data) == [type |-> type, data |-> data]

\* The field of one parameter.
InputOf(param) ==
  CASE param.type = "number"  -> Input("System.Double", ValueOr(param.value, IntVal(0)))
    [] param.type = "integer" -> Input("System.Int32", ValueOr(param.value, IntVal(0)))
    [] param.type = "boolean" -> Input("System.Boolean", ValueOr(param.value, BoolVal(FALSE)))
    [] param.type = "text"    -> Input("System.String", ValueOr(param.value, TextVal(<< >>)))
    [] param.type = "point"   ->
         Input("Rhino.Geometry.Point3d", ArrayOr(param.value, ArrayVal(<<0, 0, 0>>)))
    [] param.type = "vector"  ->
         Input("Rhino.Geometry.Vector3d", ArrayOr(param.value, ArrayVal(<<1, 0, 0>>)))
    [] param.type = "color"   ->
         Input("System.Drawing.Color", ArrayOr(param.value, ArrayVal(<<255, 255, 255>>)))
    [] param.type = "domain"  ->
         Input("Rhino.Geometry.Interval", ArrayOr(param.value, ArrayVal(<<0, 1>>)))
    [] OTHER -> Input("System.Object", ValueOr(param.value, NullVal))

\* The name of the field of the parameter at index (0-based).
InputName(param, index) ==
  IF param.name # << >> THEN param.name ELSE S_ParamPrefix \o Decimal(index)

\* convertParametersToInputs
ConvertParametersToInputs(parameters) ==
  [inputName \in {InputName(parameters[i], i - 1) : i \in DOMAIN parameters} |->
     InputOf(parameters[CHOOSE i \in DOMAIN parameters :
                          /\ InputName(parameters[i], i - 1) = inputName
                          /\ \A j \in (i + 1)..Len(parameters) :
                                InputName(parameters[j], j - 1) # inputName])]

(***************************************************************************)
(* Base64, as Buffer.toString('base64') writes it and Buffer.from(string,  *)
(* 'base64') reads it.  Reading never throws: characters outside the       *)
(* alphabet are passed over and a character left alone at the end gives no *)
(* byte.  It is defined on strings whose padding, if any, is at the end.   *)
(***************************************************************************)
Base64Char(v) ==
  CASE v < 26 -> 65 + v
    [] v >= 26 /\ v < 52 -> 71 + v
    [] v >= 52 /\ v < 62 -> v - 4
    [] v = 62 -> 43
    [] v = 63 -> 47

Base64Value(c) ==
  CASE c >= 65 /\ c <= 90  -> c - 65
    [] c >= 97 /\ c <= 122 -> c - 71
    [] c >= 48 /\ c <= 57  -> c + 4
    [] c \in {43, 45}      -> 62
    [] c \in {47, 95}      -> 63

ByteOr0(bytes, i) == IF i <= Len(bytes) THEN bytes[i] ELSE 0

\* The k-th character (0-based j within its group of four) of the encoding.
Base64Sextet(bytes, g, j) ==
  CASE j = 0 -> bytes[3 * g + 1] \div 4
    [] j = 1 -> (bytes[3 * g + 1] % 4) * 16 + ByteOr0(bytes, 3 * g + 2) \div 16
    [] j = 2 -> (bytes[3 * g + 2] % 16) * 4 + ByteOr0(bytes, 3 * g + 3) \div 64
    [] j = 3 -> bytes[3 * g + 3] % 64

\* buffer.toString('base64')
Base64Encode(bytes) ==
  [k \in 1..(4 * ((Len(bytes) + 2) \div 3)) |->
     IF 3 * ((k - 1) \div 4) + ((k - 1) % 4) > Len(bytes) THEN 61
     ELSE Base64Char(Base64Sextet(bytes, (k - 1) \div 4, (k - 1) % 4))]

\* The characters before the padding.
Unpadded(string) ==
  SubSeq(string, 1, Len(string) - Cardinality({i \in 1..Len(string) : string[i] = 61}))

\* The j-th byte (0-based) of the g-th group of four characters.
Base64Byte(chars, g, j) ==
  CASE j = 0 -> Base64Value(chars[4 * g + 1]) * 4 + Base64Value(chars[4 * g + 2]) \div 16
    [] j = 1 -> (Base64Value(chars[4 * g + 2]) % 16) * 16
                + Base64Value(chars[4 * g + 3]) \div 4
    [] j = 2 -> (Base64Value(chars[4 * g + 3]) % 4) * 64 + Base64Value(chars[4 * g + 4])

Base64Bytes(chars) ==
  [k \in 1..(3 * (Len(chars) \div 4) + Max((Len(chars) % 4) - 1, 0)) |->
     Base64Byte(chars, (k - 1) \div 3, (k - 1) % 3)]

IsBase64Char(c) ==
  \/ (c >= 65 /\ c <= 90) \/ (c >= 97 /\ c <= 122) \/ (c >= 48 /\ c <= 57)
  \/ c \in {43, 45, 47, 95}

\* Buffer.from(string, 'base64')
Base64Decode(string) ==
  CASE \A i \in 1..Len(string) :
         string[i] = 61 => \A j \in i..Len(string) : string[j] = 61
       -> Base64Bytes(SelectSeq(Unpadded(string), IsBase64Char))

(***************************************************************************)
(* The mesh wire decoder.  A number read by readUInt32LE is kept as its    *)
(* two 16-bit halves; a coordinate is a float as ReadFloatLE gives it.     *)
(* vertices and faces are the arrays of the source; of normals the model   *)
(* keeps the length and not the coordinates.                               *)
(***************************************************************************)
U32(hi, lo) == [hi |-> hi, lo |-> lo]
U32Of(n)    == U32(n \div 65536, n % 65536)

\* buffer.readUInt32LE(i), i 0-based.
ReadUInt32LE(bytes, i) ==
  U32(bytes[i + 3] + 256 * bytes[i + 4], bytes[i + 1] + 256 * bytes[i + 2])

\* u > n and Math.min(u, n), for a number n below 2^30.
U32Above(u, n) == u.hi >= 16384 \/ u.hi * 65536 + u.lo > n
U32Min(u, n)   == IF U32Above(u, n) THEN n ELSE u.hi * 65536 + u.lo

\* Number.isFinite of a float.
IsFinite(f) == f.mag \div 8388608 # 255

Sig_Mesh == U32(19781, 21320)   \* 0x4D455348
Sig_Onrb == U32(20302, 21058)   \* 0x4F4E5242
UnrealisticCount == 1000000

\* The records of size bytes that fit between offset and the end of the buffer.
Room(buffer, offset, size) ==
  IF Len(buffer) >= offset THEN (Len(buffer) - offset) \div size ELSE 0

\* count vertices of three floats each, from offset on.
ReadVertices(buffer, offset, count) ==
  [k \in 1..(3 * count) |-> ReadFloatLE(buffer, offset + 4 * (k - 1))]

\* count faces of three indices each, from offset on.
ReadTriangles(buffer, offset, count) ==
  [k \in 1..(3 * count) |-> ReadUInt32LE(buffer, offset + 4 * (k - 1))]

\* One face of four indices: a triangle, and a second one if d differs from c.
Quad(a, b, c, d) == <<a, b, c>> \o (IF d # c THEN <<a, c, d>> ELSE << >>)

\* count faces of four indices each, from offset on.
RECURSIVE ReadQuads(_, _, _)
ReadQuads(buffer, offset, count) ==
  IF count = 0 THEN << >>
  ELSE Quad(ReadUInt32LE(buffer, offset), ReadUInt32LE(buffer, offset + 4),
            ReadUInt32LE(buffer, offset + 8), ReadUInt32LE(buffer, offset + 12))
       \o ReadQuads(buffer, offset + 16, count - 1)

ReadFaces(buffer, offset, faceCount, size) ==
  IF size = 16 THEN ReadQuads(buffer, offset, U32Min(faceCount, Room(buffer, offset, 16)))
  ELSE ReadTriangles(buffer, offset, U32Min(faceCount, Room(buffer, offset, 12)))

\* The two loops of a layout: n vertices from offset on, then the faces.
ReadMesh(buffer, vertices, faces, offset, n, faceCount, size) ==
  [vertices |-> vertices \o ReadVertices(buffer, offset, n),
   faces    |-> faces \o ReadFaces(buffer, offset + 12 * n, faceCount, size)]

IsRhinoMeshFormat(buffer) == Len(buffer) >= 16 /\ ReadUInt32LE(buffer, 0) = Sig_Mesh
IsOpenNURBSFormat(buffer) == Len(buffer) >= 8 /\ ReadUInt32LE(buffer, 0) = Sig_Onrb

\* signature, version, vertex count, face count; faces of four indices
ParseRhinoMeshFormat(buffer, vertices, faces) ==
  ReadMesh(buffer, vertices, faces, 16,
           U32Min(ReadUInt32LE(buffer, 8), Room(buffer, 16, 12)),
           ReadUInt32LE(buffer, 12), 16)

\* signature and header, vertex count, face count; faces of three indices
ParseOpenNURBSFormat(buffer, vertices, faces) ==
  ReadMesh(buffer, vertices, faces, 16,
           U32Min(ReadUInt32LE(buffer, 8), Room(buffer, 16, 12)),
           ReadUInt32LE(buffer, 12), 12)

\* vertex count, face count; faces of three indices
ParseSimpleMeshFormat(buffer, vertices, faces) ==
  ReadMesh(buffer, vertices, faces, 8,
           U32Min(ReadUInt32LE(buffer, 0), Room(buffer, 8, 12)),
           ReadUInt32LE(buffer, 4), 12)

\* generateNormals: the number of coordinates it pushes.  vertexNormals
\* starts with one triple per vertex and grows to hold the triple of every
\* face index beyond them.  SpreadLimit bounds the indices for which the
\* spread of vertexNormals reaches no limit of the engine.
SpreadLimit == 1000
GreatestIndex(faces) ==
  IF faces = << >> THEN -1
  ELSE GreatestOf({faces[i].lo : i \in 1..Len(faces)})
NormalsLength(vertices, faces) ==
  CASE \A i \in 1..Len(faces) : faces[i].hi = 0 /\ faces[i].lo < SpreadLimit
       -> Max(Len(vertices), 3 * (GreatestIndex(faces) + 1))

E_MeshData     == "Failed to parse mesh data"
E_TooSmall     == "Mesh buffer too small"
E_OutOfRange   == "The value of \"offset\" is out of range"
E_Unrealistic  == "Unrealistic mesh size"
E_NotBase64OrJson == "Invalid mesh data format: not base64 or JSON"
E_NoMesh       == "No valid mesh data extracted from buffer"
E_NoData       == "No valid geometry data found in output"
E_BadResponse  == "Invalid Rhino.Compute response format - missing or invalid 'values' array"
E_NoGeometry   == "No valid geometry data found in Rhino.Compute response"
E_Geometry     == "Failed to parse Rhino.Compute geometry"
E_NoVertices   == "Geometry validation failed: No vertices found"
E_VertexLength == "Geometry validation failed: Invalid vertices array length"
E_NoFaces      == "Geometry validation failed: No faces found"
E_FaceLength   == "Geometry validation failed: Invalid faces array length"
E_FaceIndex    == "Geometry validation failed: Face index out of bounds"
E_Coordinate   == "Geometry validation failed: Invalid vertex coordinate"

(***************************************************************************)
(* generateNormals with its numbers.  Coordinates are whole numbers and a  *)
(* vector is the list of its three components.  The normal of a face is    *)
(* divided by its length where that is exact: when the normal lies along   *)
(* an axis.  A vertex normal, divided by its length, is kept as the        *)
(* shortest whole vector v of its direction and the number its length is   *)
(* the square root of: the normal is v / sqrt(over).  Face indices are     *)
(* below the number of vertices.                                           *)
(***************************************************************************)
Abs(n) == IF n < 0 THEN -n ELSE n
RECURSIVE Gcd(_, _)
Gcd(a, b) == IF b = 0 THEN a ELSE Gcd(b, a % b)

Minus(a, b) == <<a[1] - b[1], a[2] - b[2], a[3] - b[3]>>
Plus(a, b)  == <<a[1] + b[1], a[2] + b[2], a[3] + b[3]>>
Dot(a, b)   == a[1] * b[1] + a[2] * b[2] + a[3] * b[3]
Cross(a, b) ==
  <<a[2] * b[3] - a[3] * b[2], a[3] * b[1] - a[1] * b[3], a[1] * b[2] - a[2] * b[1]>>
Scaled(a, k) == <<a[1] * k, a[2] * k, a[3] * k>>
Shortest(a) ==
  LET g == Gcd(Abs(a[1]), Gcd(Abs(a[2]), Abs(a[3])))
  IN  IF g = 0 THEN a
      ELSE <<(Abs(a[1]) \div g) * (IF a[1] < 0 THEN -1 ELSE 1),
             (Abs(a[2]) \div g) * (IF a[2] < 0 THEN -1 ELSE 1),
             (Abs(a[3]) \div g) * (IF a[3] < 0 THEN -1 ELSE 1)>>

\* a / |a| for a vertex normal; the zero vector is left as it is.
Unit(a) == [v |-> Shortest(a), over |-> Max(Dot(Shortest(a), Shortest(a)), 1)]

\* normal / length for a face normal along an axis; the zero vector is left
\* as it is.
AlongAxis(a) == Dot(Shortest(a), Shortest(a)) <= 1
Normalized(a) == CASE AlongAxis(a) -> Shortest(a)

\* The vertex of index i (from 0) of the vertices array.
VertexAt(vertices, i) == <<vertices[3 * i + 1], vertices[3 * i + 2], vertices[3 * i + 3]>>

\* EdgeCross with the two edges exchanged.
EdgeCross_Exchanged(vertices, faces, f) ==
  Cross(Minus(VertexAt(vertices, faces[3 * f]), VertexAt(vertices, faces[3 * f - 2])),
        Minus(VertexAt(vertices, faces[3 * f - 1]), VertexAt(vertices, faces[3 * f - 2])))

\* The cross product of the edges of the face number f (from 1).
EdgeCross(vertices, faces, f) ==
  Cross(Minus(VertexAt(vertices, faces[3 * f - 1]), VertexAt(vertices, faces[3 * f - 2])),
        Minus(VertexAt(vertices, faces[3 * f]), VertexAt(vertices, faces[3 * f - 2])))

\* The normal of a face as it is added to the normals of its vertices.
FaceNormal(vertices, faces, f) == Normalized(EdgeCross(vertices, faces, f))

\* What the faces up to number f have added to the normal of vertex i: the
\* normal of a face once for every corner of it that is the vertex.
RECURSIVE Accumulated(_, _, _, _)
Accumulated(vertices, faces, i, f) ==
  IF f = 0 THEN <<0, 0, 0>>
  ELSE Plus(Accumulated(vertices, faces, i, f - 1),
            Scaled(FaceNormal(vertices, faces, f),
                   Cardinality({j \in {3 * f - 2, 3 * f - 1, 3 * f} : faces[j] = i})))

\* generateNormals: the normals it pushes, one for every vertex.
GenerateNormals(vertices, faces) ==
  [k \in 1..(Len(vertices) \div 3) |->
     Unit(Accumulated(vertices, faces, k - 1, Len(faces) \div 3))]

(***************************************************************************)
(* Mesh objects, as JSON.parse gives them, and their JSON text.  A number  *)
(* of an object is a natural up to MaxIndex; a member that is absent is    *)
(* Undefined.                                                              *)
(***************************************************************************)
MaxIndex  == 3
Undefined == -1

Vertex(x, y, z)  == [X |-> x, Y |-> y, Z |-> z]
Face(a, b, c, d) == [A |-> a, B |-> b, C |-> c, D |-> d]
MeshObject(vs, fs, ns) == [Vertices |-> vs, Faces |-> fs, Normals |-> ns]

\* The number n as the vertices array holds it.
NumberFloat(n) ==
  CASE n = 0 -> F_Zero
    [] n = 1 -> F_One
    [] n = 2 -> Float(FALSE, 1073741824)
    [] n = 3 -> Float(FALSE, 1077936128)
    [] n = 4 -> Float(FALSE, 1082130432)

\* FaceTriangles with the second triangle over A, B and D.
FaceTriangles_Fan(face) ==
  IF face.A # Undefined /\ face.B # Undefined /\ face.C # Undefined
  THEN <<U32Of(face.A), U32Of(face.B), U32Of(face.C)>>
       \o (IF face.D # Undefined /\ face.D # face.C
           THEN <<U32Of(face.A), U32Of(face.B), U32Of(face.D)>> ELSE << >>)
  ELSE << >>

\* The triangles of one face of a mesh object.
FaceTriangles(face) ==
  IF face.A # Undefined /\ face.B # Undefined /\ face.C # Undefined
  THEN <<U32Of(face.A), U32Of(face.B), U32Of(face.C)>>
       \o (IF face.D # Undefined /\ face.D # face.C
           THEN <<U32Of(face.A), U32Of(face.C), U32Of(face.D)>> ELSE << >>)
  ELSE << >>

VertexCoordinates(vertex) ==
  IF vertex.X # Undefined /\ vertex.Y # Undefined /\ vertex.Z # Undefined
  THEN <<NumberFloat(vertex.X), NumberFloat(vertex.Y), NumberFloat(vertex.Z)>>
  ELSE << >>

\* The members of a list of lists, one list after the other.
RECURSIVE Joined(_)
Joined(lists) == IF lists = << >> THEN << >> ELSE Head(lists) \o Joined(Tail(lists))

\* parseMeshFromJSON: the three arrays after its pushes.
ParseMeshFromJSON(meshObject, vertices, faces, normals) ==
  [vertices |-> vertices \o Joined([k \in DOMAIN meshObject.Vertices |->
                                       VertexCoordinates(meshObject.Vertices[k])]),
   faces    |-> faces \o Joined([k \in DOMAIN meshObject.Faces |->
                                    FaceTriangles(meshObject.Faces[k])]),
   normals  |-> normals + Len(Joined([k \in DOMAIN meshObject.Normals |->
                                        VertexCoordinates(meshObject.Normals[k])]))]

S_JsonVertices == <<123, 34, 86, 101, 114, 116, 105, 99, 101, 115, 34, 58, 91>>   \* {"Vertices":[
S_JsonFaces    == <<93, 44, 34, 70, 97, 99, 101, 115, 34, 58, 91>>   \* ],"Faces":[
S_JsonNormals  == <<93, 44, 34, 78, 111, 114, 109, 97, 108, 115, 34, 58, 91>>   \* ],"Normals":[
S_JsonX == <<123, 34, 88, 34, 58>>          \* {"X":
S_JsonY == <<44, 34, 89, 34, 58>>          \* ,"Y":
S_JsonZ == <<44, 34, 90, 34, 58>>          \* ,"Z":
S_JsonA == <<123, 34, 65, 34, 58>>          \* {"A":
S_JsonB == <<44, 34, 66, 34, 58>>          \* ,"B":
S_JsonC == <<44, 34, 67, 34, 58>>          \* ,"C":
S_JsonD == <<44, 34, 68, 34, 58>>          \* ,"D":

JsonVertex(vertex) ==
  S_JsonX \o Decimal(vertex.X) \o S_JsonY \o Decimal(vertex.Y)
  \o S_JsonZ \o Decimal(vertex.Z) \o <<125>>

JsonFace(face) ==
  S_JsonA \o Decimal(face.A) \o S_JsonB \o Decimal(face.B) \o S_JsonC \o Decimal(face.C)
  \o (IF face.D = Undefined THEN << >> ELSE S_JsonD \o Decimal(face.D)) \o <<125>>

\* The texts of a list, with commas between them.
JsonList(texts) ==
  Joined([k \in DOMAIN texts |-> (IF k > 1 THEN <<44>> ELSE << >>) \o texts[k]])

\* The JSON text of a mesh object.
JsonMeshText(meshObject) ==
  S_JsonVertices
  \o JsonList([k \in DOMAIN meshObject.Vertices |-> JsonVertex(meshObject.Vertices[k])])
  \o S_JsonFaces
  \o JsonList([k \in DOMAIN meshObject.Faces |-> JsonFace(meshObject.Faces[k])])
  \o (IF meshObject.Normals = << >> THEN << >>
      ELSE S_JsonNormals
           \o JsonList([k \in DOMAIN meshObject.Normals |->
                          JsonVertex(meshObject.Normals[k])]))
  \o <<93, 125>>

\* The mesh objects of the model: the four corners of a square and one face
\* over indices up to MaxIndex, with or without D.
J_Square == <<Vertex(0, 0, 0), Vertex(1, 0, 0), Vertex(1, 1, 0), Vertex(0, 1, 0)>>
JsonFaces ==
  {Face(a, b, c, d) : a \in 0..MaxIndex, b \in 0..MaxIndex, c \in 0..MaxIndex,
                      d \in (0..MaxIndex) \cup {Undefined}}
JsonMeshes == {MeshObject(J_Square, <<face>>, << >>) : face \in JsonFaces}

\* JSON.parse on the text of one of the mesh objects.
IsJsonMeshText(text) == \E meshObject \in JsonMeshes : JsonMeshText(meshObject) = text
JsonParse(text) == CHOOSE meshObject \in JsonMeshes : JsonMeshText(meshObject) = text

\* What a step leaves behind: the error it threw (<< >> if none) and the
\* three accumulators as they are then.
Left(error, vertices, faces, normals) ==
  [error |-> error, vertices |-> vertices, faces |-> faces, normals |-> normals]

\* parseMeshData after the layout was read: normals are generated for the
\* whole of the accumulators, or the step throws.
MeshParsed(mesh, normals) ==
  IF Len(mesh.vertices) > 0 /\ Len(mesh.faces) > 0
  THEN Left(<< >>, mesh.vertices, mesh.faces,
            normals + NormalsLength(mesh.vertices, mesh.faces))
  ELSE Left(Wrap(E_MeshData, Error(E_NoMesh)), mesh.vertices, mesh.faces, normals)

\* parseMeshData on the decoded buffer.
ParseMeshBuffer(buffer, vertices, faces, normals) ==
  IF Len(buffer) < 8
  THEN Left(Wrap(E_MeshData, Error(E_TooSmall)), vertices, faces, normals)
  ELSE IF IsRhinoMeshFormat(buffer)
  THEN MeshParsed(ParseRhinoMeshFormat(buffer, vertices, faces), normals)
  ELSE IF IsOpenNURBSFormat(buffer)
  THEN IF Len(buffer) < 16
       THEN Left(Wrap(E_MeshData, Error(E_OutOfRange)), vertices, faces, normals)
       ELSE MeshParsed(ParseOpenNURBSFormat(buffer, vertices, faces), normals)
  ELSE IF \/ U32Above(ReadUInt32LE(buffer, 0), UnrealisticCount)
          \/ U32Above(ReadUInt32LE(buffer, 4), UnrealisticCount)
  THEN Left(Wrap(E_MeshData, Error(E_Unrealistic)), vertices, faces, normals)
  ELSE MeshParsed(ParseSimpleMeshFormat(buffer, vertices, faces), normals)

\* Does Buffer.from(meshData, 'base64') throw?  For no string: what it
\* cannot read it passes over.
Base64Throws(meshData) == FALSE

\* parseMeshData in the catch of the base64 reading: JSON.parse, and
\* parseMeshFromJSON on an object with Vertices and Faces.
ParseMeshText(meshData, vertices, faces, normals) ==
  IF IsJsonMeshText(meshData)
  THEN LET mesh == ParseMeshFromJSON(JsonParse(meshData), vertices, faces, normals)
       IN  Left(<< >>, mesh.vertices, mesh.faces, mesh.normals)
  ELSE Left(Wrap(E_MeshData, Error(E_NotBase64OrJson)), vertices, faces, normals)

ParseMeshData(meshData, vertices, faces, normals) ==
  IF Base64Throws(meshData) THEN ParseMeshText(meshData, vertices, faces, normals)
  ELSE ParseMeshBuffer(Base64Decode(meshData), vertices, faces, normals)

\* An entry of the envelope: its ParamName ("" if it has none), whether its
\* InnerTree has a first item in the branch {0}, and the data of that item.
Output(paramName, data) == [ParamName |-> paramName, InnerTree |-> TRUE, data |-> data]
NoTree(paramName)       == [ParamName |-> paramName, InnerTree |-> FALSE, data |-> << >>]

ExtractGeometryFromOutput(output, vertices, faces, normals) ==
  IF ~output.InnerTree THEN Left(Error(E_NoData), vertices, faces, normals)
  ELSE ParseMeshData(output.data, vertices, faces, normals)

GeometryKeywords ==
  {<<109, 101, 115, 104>>, <<98, 114, 101, 112>>,
   <<115, 117, 114, 102, 97, 99, 101>>, <<103, 101, 111, 109, 101, 116, 114, 121>>,
   <<111, 117, 116, 112, 117, 116>>, <<114, 101, 115, 117, 108, 116>>,
   <<115, 111, 108, 105, 100>>, <<99, 117, 114, 118, 101>>, <<112, 111, 105, 110, 116>>}

IsGeometryOutput(paramName) ==
  \E keyword \in GeometryKeywords :
     Find(<<Seg(ToLowerCase(paramName), 1)>>, keyword, FALSE) # -1

\* ValidateGeometry without the check of the face indices.
ValidateGeometry_AnyIndex(vertices, faces) ==
  IF Len(vertices) = 0 THEN Error(E_NoVertices)
  ELSE IF Len(vertices) % 3 # 0 THEN Error(E_VertexLength)
  ELSE IF Len(faces) = 0 THEN Error(E_NoFaces)
  ELSE IF Len(faces) % 3 # 0 THEN Error(E_FaceLength)
  ELSE IF \E i \in 1..Len(vertices) : ~IsFinite(vertices[i]) THEN Error(E_Coordinate)
  ELSE << >>

\* validateGeometry: the error it throws, << >> if it returns.
ValidateGeometry(vertices, faces) ==
  IF Len(vertices) = 0 THEN Error(E_NoVertices)
  ELSE IF Len(vertices) % 3 # 0 THEN Error(E_VertexLength)
  ELSE IF Len(faces) = 0 THEN Error(E_NoFaces)
  ELSE IF Len(faces) % 3 # 0 THEN Error(E_FaceLength)
  ELSE IF \E i \in 1..Len(faces) : U32Above(faces[i], (Len(vertices) \div 3) - 1)
  THEN Error(E_FaceIndex)
  ELSE IF \E i \in 1..Len(vertices) : ~IsFinite(vertices[i]) THEN Error(E_Coordinate)
  ELSE << >>

(***************************************************************************)
(* Response envelopes.  The data of an entry is the base64 text of a mesh  *)
(* in one of the three layouts, or the JSON text of a mesh object; the     *)
(* envelopes are all the lists of at most MaxEntries of the entries below, *)
(* and an envelope without a values list.                                  *)
(***************************************************************************)
MaxEntries == 2

U32Bytes(n) == <<n % 256, (n \div 256) % 256, (n \div 65536) % 256, n \div 16777216>>
FloatBytes(f) ==
  <<f.mag % 256, (f.mag \div 256) % 256, (f.mag \div 65536) % 256,
    f.mag \div 16777216 + (IF f.neg THEN 128 ELSE 0)>>
F_Infinity == Float(FALSE, 2139095040)
Point(x, y, z) == FloatBytes(x) \o FloatBytes(y) \o FloatBytes(z)
Indices(a, b, c) == U32Bytes(a) \o U32Bytes(b) \o U32Bytes(c)

B_Triangle == Point(F_Zero, F_Zero, F_Zero) \o Point(F_One, F_Zero, F_Zero)
              \o Point(F_Zero, F_One, F_Zero)
B_Square   == B_Triangle \o Point(F_One, F_One, F_Zero)

\* vertex count, face count, three vertices, the face 0 1 2
SimpleTriangle == U32Bytes(3) \o U32Bytes(1) \o B_Triangle \o Indices(0, 1, 2)
\* three vertices and a face that names a sixth
BadIndexTriangle == U32Bytes(3) \o U32Bytes(1) \o B_Triangle \o Indices(0, 1, 5)
\* a coordinate that is not finite
InfiniteTriangle ==
  U32Bytes(3) \o U32Bytes(1) \o Point(F_Zero, F_Zero, F_Zero)
  \o Point(F_Infinity, F_Zero, F_Zero) \o Point(F_Zero, F_One, F_Zero) \o Indices(0, 1, 2)
\* three vertices and no face
VerticesOnly == U32Bytes(3) \o U32Bytes(0) \o B_Triangle
\* counts beyond the limit of the simple layout
UnrealisticMesh == U32Bytes(2000000) \o U32Bytes(1) \o B_Triangle \o Indices(0, 1, 2)
\* fewer than 8 bytes
ShortMesh == <<1, 2, 3>>
\* the tagged layout: signature, version, counts, four vertices, the face 0 1 2 3
RhinoSquare ==
  <<72, 83, 69, 77>> \o U32Bytes(1) \o U32Bytes(4) \o U32Bytes(1) \o B_Square
  \o Indices(0, 1, 2) \o U32Bytes(3)
\* the OpenNURBS layout: signature, header, counts, three vertices, a face
OnrbTriangle ==
  <<66, 82, 78, 79>> \o U32Bytes(0) \o U32Bytes(3) \o U32Bytes(1) \o B_Triangle
  \o Indices(2, 1, 0)
\* the OpenNURBS signature and header with nothing after them
OnrbHeader == <<66, 82, 78, 79>> \o U32Bytes(0)

N_MeshName   == <<77, 101, 115, 104>>                  \* Mesh
N_ResultName == <<82, 69, 83, 85, 76, 84>>             \* RESULT
N_BrepName   == <<66, 114, 101, 112, 32, 49>>          \* Brep 1
N_CountName  == <<99, 111, 117, 110, 116>>             \* count

\* A mesh object in the tagged layout: signature, version, counts, the
\* vertices as floats, the faces as four indices each.
RhinoBytes(meshObject) ==
  <<72, 83, 69, 77>> \o U32Bytes(1)
  \o U32Bytes(Len(meshObject.Vertices)) \o U32Bytes(Len(meshObject.Faces))
  \o Joined([k \in DOMAIN meshObject.Vertices |->
               Point(NumberFloat(meshObject.Vertices[k].X),
                     NumberFloat(meshObject.Vertices[k].Y),
                     NumberFloat(meshObject.Vertices[k].Z))])
  \o Joined([k \in DOMAIN meshObject.Faces |->
               Indices(meshObject.Faces[k].A, meshObject.Faces[k].B, meshObject.Faces[k].C)
               \o U32Bytes(meshObject.Faces[k].D)])

\* a mesh object: the square and the face 0 1 2 3
J_QuadMesh == MeshObject(J_Square, <<Face(0, 1, 2, 3)>>, << >>)

Outputs ==
  {Output(N_MeshName, Base64Encode(SimpleTriangle)),
   Output(N_ResultName, Base64Encode(RhinoSquare)),
   Output(N_BrepName, Base64Encode(OnrbTriangle)),
   Output(N_MeshName, Base64Encode(BadIndexTriangle)),
   Output(N_MeshName, Base64Encode(InfiniteTriangle)),
   Output(N_MeshName, Base64Encode(VerticesOnly)),
   Output(N_ResultName, Base64Encode(UnrealisticMesh)),
   Output(N_ResultName, Base64Encode(ShortMesh)),
   Output(N_BrepName, Base64Encode(OnrbHeader)),
   NoTree(N_BrepName),
   Output(N_CountName, Base64Encode(SimpleTriangle)),
   Output(<< >>, Base64Encode(SimpleTriangle)),
   Output(N_MeshName, JsonMeshText(J_QuadMesh))}

\* An envelope: whether it has a values list, and the list.
Response(values) == [isArray |-> TRUE, values |-> values]
NoValues         == [isArray |-> FALSE, values |-> << >>]
Responses ==
  {NoValues} \cup {Response(list) : list \in UNION {[1..n -> Outputs] : n \in 0..MaxEntries}}

(***************************************************************************)
(* callRhinoCompute.  Messages are texts, sequences of character codes.    *)
(***************************************************************************)
MaxRetries == 3

S_ServerError == <<82, 104, 105, 110, 111, 46, 67, 111, 109, 112, 117, 116, 101, 32, 115, 101,
                   114, 118, 101, 114, 32, 101, 114, 114, 111, 114, 32, 40>>   \* Rhino.Compute server error (
S_RateLimited == <<82, 104, 105, 110, 111, 46, 67, 111, 109, 112, 117, 116, 101, 32, 114, 97,
                   116, 101, 32, 108, 105, 109, 105, 116, 101, 100, 32, 40, 52, 50, 57, 41>>   \* Rhino.Compute rate limited (429)
S_AuthError == <<82, 104, 105, 110, 111, 46, 67, 111, 109, 112, 117, 116, 101, 32, 97, 117,
                 116, 104, 101, 110, 116, 105, 99, 97, 116, 105, 111, 110, 32, 101, 114, 114,
                 111, 114, 32, 40>>   \* Rhino.Compute authentication error (
S_ClientError == <<82, 104, 105, 110, 111, 46, 67, 111, 109, 112, 117, 116, 101, 32, 99, 108,
                   105, 101, 110, 116, 32, 101, 114, 114, 111, 114, 32, 40>>   \* Rhino.Compute client error (
S_Timeout == <<82, 104, 105, 110, 111, 46, 67, 111, 109, 112, 117, 116, 101, 32, 114, 101, 113,
               117, 101, 115, 116, 32, 116, 105, 109, 101, 111, 117, 116, 32, 40, 97, 116, 116,
               101, 109, 112, 116, 32>>   \* Rhino.Compute request timeout (attempt
S_NetworkError == <<78, 101, 116, 119, 111, 114, 107, 32, 101, 114, 114, 111, 114, 32, 99, 111,
                    110, 110, 101, 99, 116, 105, 110, 103, 32, 116, 111, 32, 82, 104, 105, 110,
                    111, 46, 67, 111, 109, 112, 117, 116, 101, 58, 32>>   \* Network error connecting to Rhino.Compute:
S_FailedAfter == <<82, 104, 105, 110, 111, 46, 67, 111, 109, 112, 117, 116, 101, 32, 114, 101,
                   113, 117, 101, 115, 116, 32, 102, 97, 105, 108, 101, 100, 32, 97, 102, 116,
                   101, 114, 32>>   \* Rhino.Compute request failed after
S_Attempts == <<32, 97, 116, 116, 101, 109, 112, 116, 115, 58, 32>>   \*  attempts:
S_Fetch == <<102, 101, 116, 99, 104>>                                  \* fetch
S_Authentication == <<97, 117, 116, 104, 101, 110, 116, 105, 99, 97, 116, 105, 111, 110>>
S_ClientErrorWord == <<99, 108, 105, 101, 110, 116, 32, 101, 114, 114, 111, 114>>   \* client error

\* What the service and the platform say.
T_FetchFailed == <<102, 101, 116, 99, 104, 32, 102, 97, 105, 108, 101, 100>>   \* fetch failed
T_Aborted == <<84, 104, 105, 115, 32, 111, 112, 101, 114, 97, 116, 105, 111, 110, 32, 119, 97,
               115, 32, 97, 98, 111, 114, 116, 101, 100>>   \* This operation was aborted
T_JsonInput == <<85, 110, 101, 120, 112, 101, 99, 116, 101, 100, 32, 101, 110, 100, 32, 111,
                 102, 32, 74, 83, 79, 78, 32, 105, 110, 112, 117, 116>>   \* Unexpected end of JSON input
T_Unauthorized == <<85, 110, 97, 117, 116, 104, 111, 114, 105, 122, 101, 100>>   \* Unauthorized
T_Licence == <<99, 97, 110, 110, 111, 116, 32, 102, 101, 116, 99, 104, 32, 116, 104, 101, 32,
               108, 105, 99, 101, 110, 99, 101>>   \* cannot fetch the licence

\* text.includes(part)
Includes(text, part) ==
  \E k \in 0..(Len(text) - Len(part)) : SubSeq(text, k + 1, k + Len(part)) = part

ErrorOf(name, message) == [name |-> name, message |-> message]

\* What fetch gives: a response with its status, its body text and whether
\* the body is JSON; an abort by the timeout; a failure of the connection.
FetchResponse(status, text, json) == [t |-> "response", status |-> status, text |-> text, json |-> json]
Aborted     == [t |-> "error", error |-> ErrorOf("AbortError", T_Aborted)]
NetworkDown == [t |-> "error", error |-> ErrorOf("TypeError", T_FetchFailed)]

\* The try block of one attempt: it returns, continues with the next
\* attempt, falls through to the end of the loop body, or throws into the
\* catch block.
TryBlock(count, reply) ==
  IF reply.t = "error" THEN [t |-> "catch", error |-> reply.error]
  ELSE IF reply.status >= 200 /\ reply.status <= 299
  THEN IF reply.json THEN [t |-> "return"]
       ELSE [t |-> "catch", error |-> ErrorOf("SyntaxError", T_JsonInput)]
  ELSE IF reply.status >= 500
  THEN [t |-> IF count < MaxRetries THEN "continue" ELSE "through",
        lastError |-> ErrorOf("Error", S_ServerError \o IntText(reply.status)
                                         \o <<41, 58, 32>> \o reply.text)]
  ELSE IF reply.status = 429
  THEN [t |-> IF count < MaxRetries THEN "continue" ELSE "through",
        lastError |-> ErrorOf("Error", S_RateLimited)]
  ELSE IF reply.status = 401 \/ reply.status = 403
  THEN [t |-> "catch",
        error |-> ErrorOf("Error", S_AuthError \o IntText(reply.status)
                                     \o <<41, 58, 32>> \o reply.text)]
  ELSE [t |-> "catch",
        error |-> ErrorOf("Error", S_ClientError \o IntText(reply.status)
                                     \o <<41, 58, 32>> \o reply.text)]

\* The catch block of one attempt.
CatchBlock(count, error) ==
  IF error.name = "AbortError"
  THEN [t |-> "through",
        lastError |-> ErrorOf("Error", S_Timeout \o IntText(count) \o <<41>>)]
  ELSE IF Includes(error.message, S_Fetch)
  THEN [t |-> "through", lastError |-> ErrorOf("Error", S_NetworkError \o error.message)]
  ELSE IF Includes(error.message, S_Authentication) \/ Includes(error.message, S_ClientErrorWord)
  THEN [t |-> "throw", error |-> error]
  ELSE [t |-> "through", lastError |-> error]

\* One turn of the loop.
Attempt(count, reply) ==
  LET tried == TryBlock(count, reply)
  IN  IF tried.t = "catch" THEN CatchBlock(count, tried.error) ELSE tried

\* The error thrown after the loop.
FinalError(error) ==
  ErrorOf("Error", S_FailedAfter \o IntText(MaxRetries) \o S_Attempts \o error.message)

(***************************************************************************)
(* cache.checkRateLimit: the result and the timestamps kept for the client *)
(* after a call at the time now.                                           *)
(***************************************************************************)
\* CheckRateLimit that refuses only above maxRequests recent requests.
CheckRateLimit_OneMore(kept, now, most, seconds) ==
  LET window == now - (seconds * 1000)
      recentRequests == SelectSeq(kept, LAMBDA timestamp : timestamp > window)
  IN  IF Len(recentRequests) > most
      THEN [allowed |-> FALSE, kept |-> kept]
      ELSE [allowed |-> TRUE, kept |-> Append(recentRequests, now)]

CheckRateLimit(kept, now, most, seconds) ==
  LET window == now - (seconds * 1000)
      recentRequests == SelectSeq(kept, LAMBDA timestamp : timestamp > window)
  IN  IF Len(recentRequests) >= most
      THEN [allowed |-> FALSE, kept |-> kept]
      ELSE [allowed |-> TRUE, kept |-> Append(recentRequests, now)]

(***************************************************************************)
(* HealthMonitor.  The result of a health check function is its success    *)
(* and its responseTime, or that it threw.                                 *)
(***************************************************************************)
SlowResponse   == 5000
UnhealthyAfter == 3

NoService == [status |-> "none"]
Succeeded(responseTime) == [t |-> "result", success |-> TRUE, responseTime |-> responseTime]
Failed(responseTime)    == [t |-> "result", success |-> FALSE, responseTime |-> responseTime]
Threw                   == [t |-> "threw"]

\* initializeService
InitializeService(health) ==
  IF health = NoService
  THEN [status |-> "healthy", errorCount |-> 0, consecutiveFailures |-> 0]
  ELSE health

\* CheckServiceHealth with the status unhealthy from the second failure on.
CheckServiceHealth_TwoStrikes(health, result) ==
  LET known == InitializeService(health)
  IN  IF result.t = "threw"
      THEN [status |-> "unhealthy", errorCount |-> known.errorCount + 1,
            consecutiveFailures |-> known.consecutiveFailures + 1]
      ELSE IF result.success
      THEN [status |-> IF result.responseTime > SlowResponse THEN "degraded" ELSE "healthy",
            errorCount |-> known.errorCount, consecutiveFailures |-> 0]
      ELSE [status |-> IF known.consecutiveFailures + 1 >= 2 THEN "unhealthy"
                       ELSE IF known.consecutiveFailures + 1 >= 1 THEN "degraded"
                       ELSE known.status,
            errorCount |-> known.errorCount + 1,
            consecutiveFailures |-> known.consecutiveFailures + 1]

\* checkServiceHealth: the record of the service after the check.
CheckServiceHealth(health, result) ==
  LET known == InitializeService(health)
  IN  IF result.t = "threw"
      THEN [status |-> "unhealthy", errorCount |-> known.errorCount + 1,
            consecutiveFailures |-> known.consecutiveFailures + 1]
      ELSE IF result.success
      THEN [status |-> IF result.responseTime > SlowResponse THEN "degraded" ELSE "healthy",
            errorCount |-> known.errorCount, consecutiveFailures |-> 0]
      ELSE [status |-> IF known.consecutiveFailures + 1 >= UnhealthyAfter THEN "unhealthy"
                       ELSE IF known.consecutiveFailures + 1 >= 1 THEN "degraded"
                       ELSE known.status,
            errorCount |-> known.errorCount + 1,
            consecutiveFailures |-> known.consecutiveFailures + 1]

\* shouldUseService
ShouldUseService(health) == health = NoService \/ health.status # "unhealthy"

(***************************************************************************)
(* The upload, parse and download of one file.                             *)
(*   fileBuffer  the buffer being handled                                  *)
(*   upload      the file it came from and the length it was cut to        *)
(*   accepted    the answer of the upload route's validateGrasshopperFile  *)
(*   pc          the position inside parseDefinition                       *)
(*   parameters  the accumulator of extractRealParameters                  *)
(*   stages      the extraction stages that have run in this parse         *)
(*   caught      the error parseDefinition caught, << >> if none           *)
(*   outcome     what parseDefinition gave its caller                      *)
(*   download    the last generateModifiedFile call: its buffer, the       *)
(*               parameters parsed from it, the parameters sent, which of  *)
(*               them were edited, and the time of the call                *)
(*   downloads   the number of generateModifiedFile calls so far           *)
(*   parses      the parseDefinition calls that have ended, each with the  *)
(*               buffer it was given and what it gave its caller           *)
(*   inputs      the request fields convertParametersToInputs made of the  *)
(*               parameter list it was given                               *)
(*   document    the handle findGrasshopperDocument gave for the buffer    *)
(***************************************************************************)
VARIABLES fileBuffer, upload, accepted, pc, parameters, stages, caught, outcome,
          download, downloads, parses, inputs, document

fileVars == <<fileBuffer, upload, accepted, pc, parameters, stages, caught, outcome,
              download, downloads, parses, inputs, document>>

(***************************************************************************)
(* The decoding of one response envelope.                                  *)
(*   response       the envelope given to parseRhinoComputeResponse        *)
(*   phase          the position inside parseRhinoComputeResponse          *)
(*   position       the number of entries the loop has been through        *)
(*   vertices, faces, normals   the accumulators (of normals the length)   *)
(*   geometryFound  the flag of the loop                                   *)
(*   extracted      the entries given to extractGeometryFromOutput so far, *)
(*                  each with the error its extraction threw               *)
(*   geometry       what parseRhinoComputeResponse gave its caller         *)
(*   meshObject     the mesh object the envelope was made from, for a      *)
(*                  direct call of parseMeshFromJSON                       *)
(*   vertexNormals  the normals a direct call of generateNormals pushed    *)
(***************************************************************************)
VARIABLES response, phase, position, vertices, faces, normals, geometryFound,
          extracted, geometry, meshObject, vertexNormals

meshVars == <<response, phase, position, vertices, faces, normals, geometryFound,
              extracted, geometry, meshObject, vertexNormals>>

(***************************************************************************)
(* The compute service and its health.                                     *)
(*   service    the record HealthMonitor keeps for rhino-compute, NoService *)
(*              before initializeService                                   *)
(*   checks     the results checkServiceHealth was given so far            *)
(*   inflight   for each endpoint, the computeGeometry calls that wait for *)
(*              the answer of the service                                  *)
(*   started    the number of computeGeometry calls so far                 *)
(*   contacted  the number of calls that sent a request to the service     *)
(*   answer     the last answer of an endpoint                             *)
(***************************************************************************)
VARIABLES service, checks, inflight, started, contacted, answer

serviceVars == <<service, checks, inflight, started, contacted, answer>>

(***************************************************************************)
(* One call of callRhinoCompute.                                           *)
(*   callState  running, returned, or threw with the message of the error  *)
(*   attempt    the loop variable                                          *)
(*   requests   the number of requests sent                                *)
(*   lastError  the error kept for the final message                       *)
(*   replies    what fetch gave for each request                           *)
(***************************************************************************)
VARIABLES callState, attempt, requests, lastError, replies

callVars == <<callState, attempt, requests, lastError, replies>>

(***************************************************************************)
(* The rate limit of one client.                                           *)
(*   clock         Date.now()                                              *)
(*   rateLimit     the timestamps kept under rate_limit:<clientIp>         *)
(*   limitCalls    for each call of checkRateLimit so far its time, its    *)
(*                 result and the timestamps kept after it                 *)
(*   maxRequests, windowSeconds   the arguments, the same in every call    *)
(***************************************************************************)
VARIABLES clock, rateLimit, limitCalls, maxRequests, windowSeconds

limitVars == <<clock, rateLimit, limitCalls, maxRequests, windowSeconds>>

(***************************************************************************)
(* The viewer component.                                                   *)
(*   viewerParameters  the parameters state                                *)
(*   viewerGeometry    the geometry state, shown by the 3D view            *)
(*   computing         the computing state                                 *)
(*   waiting           the parameter sets of the compute requests that     *)
(*                     have no response yet, in the order they were sent   *)
(*   clicks            the number of changes and resets so far             *)
(***************************************************************************)
VARIABLES viewerParameters, viewerGeometry, computing, waiting, clicks

viewerVars == <<viewerParameters, viewerGeometry, computing, waiting, clicks>>

restVars == <<serviceVars, callVars, limitVars, viewerVars>>

vars == <<fileVars, meshVars, restVars>>

NoOutcome  == [t |-> "none"]
NoDownload == [t |-> "none"]

FileIdle ==
  /\ accepted = "unknown" /\ pc = "idle" /\ parameters = << >> /\ stages = << >>
  /\ caught = << >> /\ outcome = NoOutcome /\ download = NoDownload /\ downloads = 0
  /\ parses = << >> /\ inputs = << >> /\ document = NullDocument

\* No envelope is being decoded.
NoGeometry == [t |-> "none"]
MeshIdle ==
  /\ position = 0 /\ vertices = << >> /\ faces = << >> /\ normals = 0
  /\ geometryFound = FALSE /\ extracted = << >> /\ geometry = NoGeometry
  /\ vertexNormals = << >>
NoObject == MeshObject(<< >>, << >>, << >>)
MeshOff == response = NoValues /\ phase = "off" /\ MeshIdle /\ meshObject = NoObject

\* No file is being handled.
FileOff ==
  /\ fileBuffer = << >> /\ upload = [file |-> << >>, cut |-> -1]
  /\ accepted = "unknown" /\ pc = "off" /\ parameters = << >> /\ stages = << >>
  /\ caught = << >> /\ outcome = NoOutcome /\ download = NoDownload /\ downloads = 0
  /\ parses = << >> /\ inputs = << >> /\ document = NullDocument

NoAnswer == [status |-> "none"]
Endpoints == {"compute", "upload"}
ServiceIdle ==
  /\ service = NoService /\ checks = << >>
  /\ inflight = [endpoint \in Endpoints |-> 0]
  /\ started = 0 /\ contacted = 0 /\ answer = NoAnswer

NullError == [name |-> "null"]
CallOff ==
  /\ callState = [t |-> "off"] /\ attempt = 0 /\ requests = 0
  /\ lastError = NullError /\ replies = << >>

LimitOff ==
  /\ clock = 0 /\ rateLimit = << >> /\ limitCalls = << >>
  /\ maxRequests = 0 /\ windowSeconds = 0

ViewerOff ==
  /\ viewerParameters = 0 /\ viewerGeometry = 0 /\ computing = FALSE
  /\ waiting = << >> /\ clicks = 0

\* Nothing else is going on.
RestOff == ServiceIdle /\ CallOff /\ LimitOff /\ ViewerOff

InitFile ==
  /\ \E file \in Files, k \in Cuts :
        /\ upload = [file |-> file, cut |-> k]
        /\ fileBuffer = Cut(file, k)
  /\ FileIdle
  /\ MeshOff
  /\ RestOff

\* parseDefinition is called on one buffer after another, without upload.
MaxParses == 3
ParseBuffers == {Norm(SliderFile), Norm(TextFile), Norm(WordFile), Norm(EmptyFile)}
Direct(buf) == [file |-> buf, cut |-> -2]
InitParse ==
  /\ fileBuffer \in ParseBuffers
  /\ upload = Direct(fileBuffer)
  /\ FileIdle
  /\ MeshOff
  /\ RestOff

\* convertParametersToInputs is called on a list of at most MaxParameters
\* parameters: those the binary stage finds in a file whose GUID occurs in
\* two encodings, and lists over a few names, types and values.
MaxParameters == 2
N_Width  == <<87, 105, 100, 116, 104>>
N_Height == <<72, 101, 105, 103, 104, 116>>
SampleValues ==
  {<<"number", F_Fifty>>, <<"number", F_Zero>>, <<"boolean", BoolVal(FALSE)>>,
   <<"text", TextVal(<< >>)>>, <<"point", [t |-> "xyz", x |-> F_Zero, y |-> F_Zero, z |-> F_One]>>,
   <<"point", ArrayVal(<<1, 2, 3>>)>>, <<"mesh", NullVal>>,
   <<"vector", [t |-> "xyz", x |-> F_Zero, y |-> F_One, z |-> F_Zero]>>,
   <<"color", TextVal(<<35, 102, 102, 48, 48, 48, 48>>)>>,                \* #ff0000
   <<"domain", [t |-> "minmax", min |-> F_Zero, max |-> F_Fifty]>>}
SampleParameters ==
  {[id |-> <<sample[1], 0>>, name |-> name, type |-> sample[1], value |-> sample[2],
    componentType |-> "Sample"] : name \in {<< >>, N_Width, N_Height}, sample \in SampleValues}
ParameterLists ==
  {ExtractParametersFromBinary(Norm(TwoEncodingFile))}
  \cup UNION {[1..n -> SampleParameters] : n \in 0..MaxParameters}

InitConvert ==
  /\ parameters \in ParameterLists
  /\ pc = "convert"
  /\ fileBuffer = << >> /\ upload = [file |-> << >>, cut |-> -1]
  /\ accepted = "unknown" /\ stages = << >>
  /\ caught = << >> /\ outcome = NoOutcome /\ download = NoDownload /\ downloads = 0
  /\ parses = << >> /\ inputs = << >> /\ document = NullDocument
  /\ MeshOff
  /\ RestOff

ConvertParametersToInputs_Call ==
  /\ pc = "convert"
  /\ inputs' = ConvertParametersToInputs(parameters)
  /\ pc' = "converted"
  /\ UNCHANGED <<fileBuffer, upload, accepted, parameters, stages, caught, outcome,
                 download, downloads, parses, document>>
  /\ UNCHANGED meshVars
  /\ UNCHANGED restVars

\* findGrasshopperDocument is called, as extractParametersFromBinary calls
\* it, on a buffer of at most MaxPieces pieces: runs of a namespace prefix,
\* a literal marker, zero bytes and other bytes.
MaxPieces == 2
Pieces ==
  {Seg(S_System, 49), Seg(S_System, 50), Seg(S_Rhino, 1), Seg(S_Mscorlib, 1),
   Seg(S_GH \o <<88>>, 1), Seg(S_GHDocument, 1), Seg(<<0>>, 20), Seg(<<255>>, 8)}
FindBuffers == UNION {[1..n -> Pieces] : n \in 0..MaxPieces}

InitFind ==
  /\ fileBuffer \in FindBuffers
  /\ pc = "find"
  /\ upload = [file |-> << >>, cut |-> -1]
  /\ accepted = "unknown" /\ parameters = << >> /\ stages = << >>
  /\ caught = << >> /\ outcome = NoOutcome /\ download = NoDownload /\ downloads = 0
  /\ parses = << >> /\ inputs = << >> /\ document = NullDocument
  /\ MeshOff
  /\ RestOff

FindGrasshopperDocument_Call ==
  /\ pc = "find"
  /\ document' = FindGrasshopperDocument(fileBuffer, SkipBinaryHeader(fileBuffer))
  /\ pc' = "found"
  /\ UNCHANGED <<fileBuffer, upload, accepted, parameters, stages, caught, outcome,
                 download, downloads, parses, inputs>>
  /\ UNCHANGED meshVars
  /\ UNCHANGED restVars

InitMesh ==
  /\ response \in Responses
  /\ phase = "idle"
  /\ MeshIdle
  /\ meshObject = NoObject
  /\ FileOff
  /\ RestOff

\* One mesh object, in an envelope as its tagged binary layout if every
\* face of it has a D, and given to parseMeshFromJSON as it is.
InitQuad ==
  /\ meshObject \in JsonMeshes
  /\ \E paramName \in {N_MeshName, N_CountName} :
        response = Response(IF \A k \in DOMAIN meshObject.Faces :
                                  meshObject.Faces[k].D # Undefined
                            THEN <<Output(paramName, Base64Encode(RhinoBytes(meshObject)))>>
                            ELSE << >>)
  /\ phase = "idle"
  /\ MeshIdle
  /\ FileOff
  /\ RestOff

\* generateNormals is called on the arrays of a mesh of five points with
\* one or two faces that lie in the planes of the axes.
P_Points == <<0, 0, 0,  1, 0, 0,  0, 1, 0,  0, 0, 1,  2, 0, 0>>
Triangles ==
  {t \in [1..3 -> 0..4] : AlongAxis(EdgeCross(P_Points, t, 1))}
FaceLists == Triangles \cup {t \o u : t \in Triangles, u \in Triangles}

InitNormals ==
  /\ vertices = P_Points
  /\ faces \in FaceLists
  /\ response = NoValues /\ phase = "normals" /\ meshObject = NoObject
  /\ position = 0 /\ normals = 0 /\ geometryFound = FALSE /\ extracted = << >>
  /\ geometry = NoGeometry /\ vertexNormals = << >>
  /\ FileOff
  /\ RestOff

GenerateNormals_Call ==
  /\ phase = "normals"
  /\ vertexNormals' = GenerateNormals(vertices, faces)
  /\ normals' = normals + 3 * Len(GenerateNormals(vertices, faces))
  /\ phase' = "pushed"
  /\ UNCHANGED <<response, position, vertices, faces, geometryFound, extracted, geometry,
                 meshObject>>
  /\ UNCHANGED fileVars
  /\ UNCHANGED restVars

\* checkServiceHealth is called with one result after another.
MaxChecks == 4
ResponseTimes == {120, SlowResponse, SlowResponse + 1}
HealthResults ==
  {Succeeded(time) : time \in ResponseTimes} \cup {Failed(120), Threw}

InitHealth == ServiceIdle /\ FileOff /\ MeshOff /\ CallOff /\ LimitOff /\ ViewerOff

CheckServiceHealth_Call ==
  /\ Len(checks) < MaxChecks
  /\ \E result \in HealthResults :
        /\ service' = CheckServiceHealth(service, result)
        /\ checks' = Append(checks, result)
  /\ UNCHANGED <<inflight, started, contacted, answer>>
  /\ UNCHANGED <<fileVars, meshVars, callVars, limitVars, viewerVars>>

\* The endpoints call computeGeometry, at most MaxCalls times in all; a
\* call that passed the health gate waits for the service while other calls
\* begin and end.
MaxCalls == 5
InitCompute == ServiceIdle /\ FileOff /\ MeshOff /\ CallOff /\ LimitOff /\ ViewerOff

\* The answer of an endpoint: the geometry computeGeometry returned, or the
\* cube of its catch; the status is success for both.
Answer(endpoint, computed) ==
  [status |-> "success", endpoint |-> endpoint,
   geometry |-> IF computed THEN "computed" ELSE "cube"]

\* An endpoint up to the await inside computeGeometry: initializeService,
\* the health gate, and the request; behind a closed gate computeGeometry
\* throws and the endpoint answers.
ComputeGeometry_Begin ==
  /\ started < MaxCalls
  /\ started' = started + 1
  /\ \E endpoint \in Endpoints :
        IF ShouldUseService(InitializeService(service))
        THEN /\ inflight' = [inflight EXCEPT ![endpoint] = @ + 1]
             /\ contacted' = contacted + 1
             /\ answer' = answer
        ELSE /\ answer' = Answer(endpoint, FALSE)
             /\ UNCHANGED <<inflight, contacted>>
  /\ service' = InitializeService(service)
  /\ UNCHANGED checks
  /\ UNCHANGED <<fileVars, meshVars, callVars, limitVars, viewerVars>>

\* The rest of computeGeometry and of the endpoint: the service answered or
\* failed after some time, the health check is given the result, and the
\* endpoint answers.
ComputeGeometry_End ==
  /\ \E endpoint \in Endpoints, success \in BOOLEAN, time \in ResponseTimes :
        /\ inflight[endpoint] > 0
        /\ inflight' = [inflight EXCEPT ![endpoint] = @ - 1]
        /\ service' = CheckServiceHealth(service, IF success THEN Succeeded(time)
                                                  ELSE Failed(time))
        /\ checks' = Append(checks, IF success THEN Succeeded(time) ELSE Failed(time))
        /\ answer' = Answer(endpoint, success)
  /\ UNCHANGED <<started, contacted>>
  /\ UNCHANGED <<fileVars, meshVars, callVars, limitVars, viewerVars>>

\* One call of callRhinoCompute; every request gets one of these replies.
Statuses == {200, 500, 429, 401, 403, 404}
Replies ==
  {FetchResponse(200, << >>, json) : json \in BOOLEAN}
  \cup {FetchResponse(status, text, FALSE) :
          status \in Statuses \ {200}, text \in {T_Unauthorized, T_Licence}}
  \cup {Aborted, NetworkDown}

InitCall ==
  /\ callState = [t |-> "running"] /\ attempt = 1 /\ requests = 0
  /\ lastError = NullError /\ replies = << >>
  /\ ServiceIdle /\ LimitOff /\ ViewerOff /\ FileOff /\ MeshOff

\* One turn of the loop of callRhinoCompute, with the return or the throw
\* that ends the call.
CallRhinoCompute_Attempt ==
  /\ callState.t = "running"
  /\ attempt <= MaxRetries
  /\ \E reply \in Replies :
        LET turn == Attempt(attempt, reply)
        IN  /\ requests' = requests + 1
            /\ replies' = Append(replies, reply)
            /\ lastError' = IF turn.t \in {"continue", "through"} THEN turn.lastError
                             ELSE lastError
            /\ attempt' = IF turn.t \in {"continue", "through"} THEN attempt + 1 ELSE attempt
            /\ callState' =
                 CASE turn.t = "return" -> [t |-> "returned"]
                   [] turn.t = "throw"  -> [t |-> "threw", error |-> turn.error]
                   [] OTHER ->
                        IF attempt + 1 <= MaxRetries THEN callState
                        ELSE [t |-> "threw", error |-> FinalError(turn.lastError)]
  /\ UNCHANGED <<fileVars, meshVars, serviceVars, limitVars, viewerVars>>

\* One client calls checkRateLimit up to MaxLimitCalls times with the same
\* maxRequests and windowSeconds; between two calls no time, half a second
\* or more goes by.
MaxLimitCalls == 5
MaxAllowed    == 2
StartTime     == 5000
Elapsed       == {0, 500, 1000, 2000}

InitLimit ==
  /\ clock = StartTime /\ rateLimit = << >> /\ limitCalls = << >>
  /\ maxRequests \in 0..MaxAllowed /\ windowSeconds \in {1, 2}
  /\ ServiceIdle /\ CallOff /\ ViewerOff /\ FileOff /\ MeshOff

CheckRateLimit_Call ==
  /\ Len(limitCalls) < MaxLimitCalls
  /\ \E elapsed \in Elapsed :
        LET now == clock + elapsed
            result == CheckRateLimit(rateLimit, now, maxRequests, windowSeconds)
        IN  /\ clock' = now
            /\ rateLimit' = result.kept
            /\ limitCalls' = Append(limitCalls, [at |-> now, allowed |-> result.allowed,
                                                  kept |-> result.kept])
  /\ UNCHANGED <<maxRequests, windowSeconds>>
  /\ UNCHANGED <<fileVars, meshVars, serviceVars, callVars, viewerVars>>

\* The viewer of a definition.  A parameter set is named by a number, 0 for
\* the parameters of the definition; the geometry the compute endpoint
\* answers for a parameter set is named after it, and the viewer starts
\* with the geometry of the definition.
MaxClicks == 4
ChangedSets == {1, 2}
GeometryFor(params) == [computedFor |-> params]

InitViewer ==
  /\ viewerParameters = 0 /\ viewerGeometry = GeometryFor(0) /\ computing = FALSE
  /\ waiting = << >> /\ clicks = 0
  /\ ServiceIdle /\ CallOff /\ LimitOff /\ FileOff /\ MeshOff

\* A control of ParameterControls changes a parameter; the controls are
\* disabled while computing is true.  handleParameterChange runs up to the
\* await of the fetch inside computeGeometry.
HandleParameterChange ==
  /\ clicks < MaxClicks
  /\ ~computing
  /\ \E updatedParams \in ChangedSets :
        /\ viewerParameters' = updatedParams
        /\ waiting' = Append(waiting, updatedParams)
  /\ computing' = TRUE
  /\ clicks' = clicks + 1
  /\ UNCHANGED viewerGeometry
  /\ UNCHANGED <<fileVars, meshVars, serviceVars, callVars, limitVars>>

\* A click on Reset in the header, a button that is never disabled.
ResetParameters ==
  /\ clicks < MaxClicks
  /\ viewerParameters' = 0
  /\ waiting' = Append(waiting, 0)
  /\ computing' = TRUE
  /\ clicks' = clicks + 1
  /\ UNCHANGED viewerGeometry
  /\ UNCHANGED <<fileVars, meshVars, serviceVars, callVars, limitVars>>

\* The response to one of the requests arrives and computeGeometry goes on
\* after its await: setGeometry, and setComputing(false) in the finally.
ViewerComputeGeometry_Response ==
  /\ \E k \in DOMAIN waiting :
        /\ viewerGeometry' = GeometryFor(waiting[k])
        /\ waiting' = SubSeq(waiting, 1, k - 1) \o SubSeq(waiting, k + 1, Len(waiting))
  /\ computing' = FALSE
  /\ UNCHANGED <<viewerParameters, clicks>>
  /\ UNCHANGED <<fileVars, meshVars, serviceVars, callVars, limitVars>>

\* The upload route asks validateGrasshopperFile before it parses.
Upload_Validate ==
  /\ pc = "idle" /\ accepted = "unknown"
  /\ UNCHANGED meshVars
  /\ UNCHANGED restVars
  /\ UNCHANGED <<inputs, document>>
  /\ UNCHANGED parses
  /\ accepted' = IF ValidateGrasshopperFile(fileBuffer) THEN "yes" ELSE "no"
  /\ UNCHANGED <<fileBuffer, upload, pc, parameters, stages, caught, outcome,
                 download, downloads>>

\* parseDefinition up to the call of extractRealParameters: the validation
\* and, if it fails, the throw into parseDefinition's own catch.
ParseDefinition_Validate ==
  /\ pc = "idle" /\ outcome = NoOutcome
  /\ UNCHANGED meshVars
  /\ UNCHANGED restVars
  /\ UNCHANGED <<inputs, document>>
  /\ UNCHANGED parses
  /\ IF ValidateGrasshopperFile(fileBuffer)
     THEN pc' = "binary" /\ caught' = << >>
     ELSE pc' = "catch" /\ caught' = Error(E_InvalidFormat)
  /\ parameters' = << >> /\ stages' = << >>
  /\ UNCHANGED <<fileBuffer, upload, accepted, outcome, download, downloads>>

\* The binary stage with the result of the call before kept for the next.
ExtractRealParameters_Cached ==
  /\ pc = "binary"
  /\ UNCHANGED meshVars
  /\ UNCHANGED restVars
  /\ UNCHANGED <<inputs, document>>
  /\ UNCHANGED parses
  /\ parameters' = IF parses # << >> /\ parses[Len(parses)].outcome.t = "definition"
                   THEN parses[Len(parses)].outcome.parameters
                   ELSE ExtractParametersFromBinary(fileBuffer)
  /\ stages' = Append(stages, "binary")
  /\ pc' = IF parameters' = << >> THEN "text" ELSE "return"
  /\ UNCHANGED <<fileBuffer, upload, accepted, caught, outcome, download, downloads>>

\* extractRealParameters: the binary stage.
ExtractRealParameters_Binary ==
  /\ pc = "binary"
  /\ UNCHANGED meshVars
  /\ UNCHANGED restVars
  /\ UNCHANGED <<inputs, document>>
  /\ UNCHANGED parses
  /\ parameters' = ExtractParametersFromBinary(fileBuffer)
  /\ stages' = Append(stages, "binary")
  /\ pc' = IF parameters' = << >> THEN "text" ELSE "return"
  /\ UNCHANGED <<fileBuffer, upload, accepted, caught, outcome, download, downloads>>

\* extractParametersFromText: the four passes over the decoded text.
ExtractParametersFromText_Tags ==
  /\ pc = "text"
  /\ UNCHANGED meshVars
  /\ UNCHANGED restVars
  /\ UNCHANGED <<inputs, document>>
  /\ UNCHANGED parses
  /\ parameters' = TextPass(fileBuffer)
  /\ stages' = Append(stages, "text")
  /\ pc' = IF parameters' = << >> THEN "patterns" ELSE "return"
  /\ UNCHANGED <<fileBuffer, upload, accepted, caught, outcome, download, downloads>>

\* The last-resort scan without the throw when it finds nothing.
ExtractParametersFromText_NoThrow ==
  /\ pc = "patterns"
  /\ UNCHANGED meshVars
  /\ UNCHANGED restVars
  /\ UNCHANGED <<inputs, document>>
  /\ UNCHANGED parses
  /\ parameters' = ExtractFromBinaryPatterns(fileBuffer)
  /\ stages' = Append(stages, "patterns")
  /\ pc' = "return"
  /\ UNCHANGED <<fileBuffer, upload, accepted, caught, outcome, download, downloads>>

\* extractParametersFromText: the last-resort scan, and the throw when it
\* finds nothing.  The error is wrapped by extractParametersFromText and by
\* extractRealParameters on its way to parseDefinition's catch.
ExtractParametersFromText_Patterns ==
  /\ pc = "patterns"
  /\ UNCHANGED meshVars
  /\ UNCHANGED restVars
  /\ UNCHANGED <<inputs, document>>
  /\ UNCHANGED parses
  /\ parameters' = ExtractFromBinaryPatterns(fileBuffer)
  /\ stages' = Append(stages, "patterns")
  /\ IF parameters' = << >>
     THEN /\ pc' = "catch"
          /\ caught' = Wrap(E_Extract, Wrap(E_Extract, Error(E_NoParameters)))
     ELSE pc' = "return" /\ caught' = caught
  /\ UNCHANGED <<fileBuffer, upload, accepted, outcome, download, downloads>>

\* parseDefinition returns the definition.
ParseDefinition_Return ==
  /\ pc = "return"
  /\ UNCHANGED meshVars
  /\ UNCHANGED restVars
  /\ UNCHANGED <<inputs, document>>
  /\ outcome' = [t |-> "definition", parameters |-> parameters,
                 parameterCount |-> Len(parameters)]
  /\ parses' = Append(parses, [buffer |-> fileBuffer, outcome |-> outcome'])
  /\ pc' = "done"
  /\ UNCHANGED <<fileBuffer, upload, accepted, parameters, stages, caught,
                 download, downloads>>

\* parseDefinition's catch: whatever was caught, the caller gets what
\* parseDefinitionSimple throws.
ParseDefinition_Catch ==
  /\ pc = "catch"
  /\ UNCHANGED meshVars
  /\ UNCHANGED restVars
  /\ UNCHANGED <<inputs, document>>
  /\ outcome' = [t |-> "error", error |-> ParseDefinitionSimple(fileBuffer, caught)]
  /\ parses' = Append(parses, [buffer |-> fileBuffer, outcome |-> outcome'])
  /\ pc' = "done"
  /\ UNCHANGED <<fileBuffer, upload, accepted, parameters, stages, caught,
                 download, downloads>>

\* The value a user gives to a parameter in the viewer.
EditedValue(value) ==
  CASE value.t \in {"num", "float", "int"} -> Num(FALSE, 7, << >>)
    [] value.t = "bool" -> [t |-> "bool", v |-> ~value.v]
    [] value.t = "text" -> [t |-> "text", v |-> <<120>>]
    [] OTHER -> value
Edits == {"none", "first"}
Edited(params, edit) ==
  IF edit = "first" /\ params # << >>
  THEN [params EXCEPT ![1].value = EditedValue(params[1].value)]
  ELSE params

\* The download route: generateModifiedFile on the stored buffer and the
\* parameters of the request.  The file it returns is then handled as a new
\* upload.
Download_GenerateModifiedFile ==
  /\ pc = "done" /\ outcome.t = "definition" /\ downloads < MaxDownloads
  /\ UNCHANGED meshVars
  /\ UNCHANGED restVars
  /\ UNCHANGED <<inputs, document>>
  /\ UNCHANGED parses
  /\ \E edit \in Edits, now \in Instants :
        LET sent == Edited(outcome.parameters, edit)
        IN  /\ fileBuffer' = GenerateModifiedFile(fileBuffer, sent, now)
            /\ download' = [t |-> "done", original |-> fileBuffer,
                            definition |-> outcome.parameters, sent |-> sent,
                            now |-> now,
                            edited |-> IF edit = "first" THEN {1} ELSE {}]
  /\ downloads' = downloads + 1
  /\ accepted' = "unknown" /\ pc' = "idle" /\ parameters' = << >> /\ stages' = << >>
  /\ caught' = << >> /\ outcome' = NoOutcome
  /\ UNCHANGED upload

\* The next call of parseDefinition, on any buffer.
ParseDefinition_Again ==
  /\ pc = "done" /\ upload.cut = -2 /\ Len(parses) < MaxParses
  /\ UNCHANGED meshVars
  /\ UNCHANGED restVars
  /\ UNCHANGED <<inputs, document>>
  /\ fileBuffer' \in ParseBuffers
  /\ upload' = Direct(fileBuffer')
  /\ pc' = "idle" /\ parameters' = << >> /\ stages' = << >> /\ caught' = << >>
  /\ outcome' = NoOutcome
  /\ UNCHANGED <<accepted, download, downloads, parses>>

\* A second call like GenerateModifiedFile_Again, on the buffer the first
\* call returned.
GenerateModifiedFile_Chained ==
  /\ download.t = "done" /\ pc = "idle" /\ accepted = "unknown"
  /\ \E now \in Instants :
        /\ fileBuffer' = GenerateModifiedFile(fileBuffer, download.sent, now)
        /\ download' = [t |-> "again", original |-> download.original,
                        sent |-> download.sent, now |-> now,
                        first |-> [buffer |-> fileBuffer, now |-> download.now]]
  /\ UNCHANGED <<upload, accepted, pc, parameters, stages, caught, outcome, downloads,
                 parses, inputs, document>>
  /\ UNCHANGED meshVars
  /\ UNCHANGED restVars

\* generateModifiedFile called once more on the stored buffer with the
\* parameters of the first call, at some time; the state keeps what the
\* first call returned.
GenerateModifiedFile_Again ==
  /\ download.t = "done" /\ pc = "idle" /\ accepted = "unknown"
  /\ \E now \in Instants :
        /\ fileBuffer' = GenerateModifiedFile(download.original, download.sent, now)
        /\ download' = [t |-> "again", original |-> download.original,
                        sent |-> download.sent, now |-> now,
                        first |-> [buffer |-> fileBuffer, now |-> download.now]]
  /\ UNCHANGED <<upload, accepted, pc, parameters, stages, caught, outcome, downloads,
                 parses, inputs, document>>
  /\ UNCHANGED meshVars
  /\ UNCHANGED restVars

NextFile ==
  \/ Upload_Validate
  \/ ParseDefinition_Validate
  \/ ExtractRealParameters_Binary
  \/ ExtractParametersFromText_Tags
  \/ ExtractParametersFromText_Patterns
  \/ ParseDefinition_Return
  \/ ParseDefinition_Catch
  \/ Download_GenerateModifiedFile

\* parseRhinoComputeResponse up to its loop: the check of the values list.
ParseRhinoComputeResponse_Begin ==
  /\ phase = "idle"
  /\ IF ~response.isArray
     THEN /\ phase' = "done"
          /\ geometry' = [t |-> "error", error |-> Wrap(E_Geometry, Error(E_BadResponse))]
     ELSE phase' = "loop" /\ geometry' = geometry
  /\ UNCHANGED <<response, position, vertices, faces, normals, geometryFound, extracted>>
  /\ UNCHANGED <<meshObject, vertexNormals>>
  /\ UNCHANGED fileVars
  /\ UNCHANGED restVars

\* One turn of the loop over an entry that has no ParamName or whose
\* ParamName holds no geometry keyword.
ParseRhinoComputeResponse_Skip ==
  /\ phase = "loop" /\ position < Len(response.values)
  /\ \/ response.values[position + 1].ParamName = << >>
     \/ ~IsGeometryOutput(response.values[position + 1].ParamName)
  /\ position' = position + 1
  /\ UNCHANGED <<response, phase, vertices, faces, normals, geometryFound, extracted,
                 geometry>>
  /\ UNCHANGED <<meshObject, vertexNormals>>
  /\ UNCHANGED fileVars
  /\ UNCHANGED restVars

\* What extractGeometryFromOutput leaves of the accumulators for the entry
\* at the position.
Extraction ==
  ExtractGeometryFromOutput(response.values[position + 1], vertices, faces, normals)

\* A turn of the loop whose catch ends the decoding when the extraction
\* throws.
ParseRhinoComputeResponse_Abort ==
  /\ phase = "loop" /\ position < Len(response.values)
  /\ response.values[position + 1].ParamName # << >>
  /\ IsGeometryOutput(response.values[position + 1].ParamName)
  /\ vertices' = Extraction.vertices
  /\ faces' = Extraction.faces
  /\ normals' = Extraction.normals
  /\ geometryFound' = (geometryFound \/ Extraction.error = << >>)
  /\ extracted' = Append(extracted, [entry |-> position + 1, error |-> Extraction.error])
  /\ position' = position + 1
  /\ IF Extraction.error = << >> THEN UNCHANGED <<phase, geometry>>
     ELSE /\ phase' = "done"
          /\ geometry' = [t |-> "error", error |-> Wrap(E_Geometry, Extraction.error)]
  /\ UNCHANGED response
  /\ UNCHANGED <<meshObject, vertexNormals>>
  /\ UNCHANGED fileVars
  /\ UNCHANGED restVars

\* One turn of the loop over an entry with a geometry keyword: the
\* extraction, and the catch that lets the loop go on when it throws.
ParseRhinoComputeResponse_Extract ==
  /\ phase = "loop" /\ position < Len(response.values)
  /\ response.values[position + 1].ParamName # << >>
  /\ IsGeometryOutput(response.values[position + 1].ParamName)
  /\ vertices' = Extraction.vertices
  /\ faces' = Extraction.faces
  /\ normals' = Extraction.normals
  /\ geometryFound' = (geometryFound \/ Extraction.error = << >>)
  /\ extracted' = Append(extracted, [entry |-> position + 1, error |-> Extraction.error])
  /\ position' = position + 1
  /\ UNCHANGED <<response, phase, geometry>>
  /\ UNCHANGED <<meshObject, vertexNormals>>
  /\ UNCHANGED fileVars
  /\ UNCHANGED restVars

\* parseRhinoComputeResponse after its loop: the error, or the mesh.
Geometry(found, error) ==
  IF ~found THEN [t |-> "error", error |-> Wrap(E_Geometry, Error(E_NoGeometry))]
  ELSE IF error # << >> THEN [t |-> "error", error |-> Wrap(E_Geometry, error)]
  ELSE [t |-> "mesh", vertices |-> vertices, faces |-> faces, normals |-> normals]

ParseRhinoComputeResponse_Return ==
  /\ phase = "loop" /\ position = Len(response.values)
  /\ geometry' = Geometry(geometryFound /\ Len(vertices) # 0,
                          ValidateGeometry(vertices, faces))
  /\ phase' = "done"
  /\ UNCHANGED <<response, position, vertices, faces, normals, geometryFound, extracted>>
  /\ UNCHANGED <<meshObject, vertexNormals>>
  /\ UNCHANGED fileVars
  /\ UNCHANGED restVars

\* parseMeshFromJSON called on the mesh object.
ParseMeshFromJSON_Call ==
  /\ phase = "idle" /\ meshObject # NoObject
  /\ vertices' = ParseMeshFromJSON(meshObject, vertices, faces, normals).vertices
  /\ faces' = ParseMeshFromJSON(meshObject, vertices, faces, normals).faces
  /\ normals' = ParseMeshFromJSON(meshObject, vertices, faces, normals).normals
  /\ phase' = "mapped"
  /\ UNCHANGED <<response, position, geometryFound, extracted, geometry, meshObject,
                 vertexNormals>>
  /\ UNCHANGED fileVars
  /\ UNCHANGED restVars

NextMesh ==
  \/ ParseRhinoComputeResponse_Begin
  \/ ParseRhinoComputeResponse_Skip
  \/ ParseRhinoComputeResponse_Extract
  \/ ParseRhinoComputeResponse_Return

NextParse ==
  \/ ParseDefinition_Validate
  \/ ExtractRealParameters_Binary
  \/ ExtractParametersFromText_Tags
  \/ ExtractParametersFromText_Patterns
  \/ ParseDefinition_Return
  \/ ParseDefinition_Catch
  \/ ParseDefinition_Again

NextQuad ==
  \/ ParseRhinoComputeResponse_Begin
  \/ ParseRhinoComputeResponse_Skip
  \/ ParseRhinoComputeResponse_Extract
  \/ ParseRhinoComputeResponse_Return
  \/ ParseMeshFromJSON_Call

NextEncode ==
  \/ ParseDefinition_Validate
  \/ ExtractRealParameters_Binary
  \/ ExtractParametersFromText_Tags
  \/ ExtractParametersFromText_Patterns
  \/ ParseDefinition_Return
  \/ ParseDefinition_Catch
  \/ Download_GenerateModifiedFile
  \/ GenerateModifiedFile_Again

NextNormals == GenerateNormals_Call
NextHealth == CheckServiceHealth_Call
NextCall == CallRhinoCompute_Attempt
NextLimit == CheckRateLimit_Call
NextViewer == HandleParameterChange \/ ResetParameters \/ ViewerComputeGeometry_Response
NextCompute == ComputeGeometry_Begin \/ ComputeGeometry_End
NextConvert == ConvertParametersToInputs_Call
NextFind == FindGrasshopperDocument_Call

Init ==
  \/ InitFile \/ InitMesh \/ InitParse \/ InitQuad \/ InitConvert \/ InitFind
  \/ InitNormals \/ InitHealth \/ InitCompute \/ InitCall \/ InitLimit \/ InitViewer
Next ==
  \/ NextFile \/ NextMesh \/ ParseDefinition_Again \/ ParseMeshFromJSON_Call
  \/ ConvertParametersToInputs_Call \/ FindGrasshopperDocument_Call
  \/ GenerateModifiedFile_Again \/ GenerateNormals_Call
  \/ CheckServiceHealth_Call \/ ComputeGeometry_Begin \/ ComputeGeometry_End
  \/ CallRhinoCompute_Attempt \/ CheckRateLimit_Call
  \/ HandleParameterChange \/ ResetParameters \/ ViewerComputeGeometry_Response

SpecFile == InitFile /\ [][NextFile]_vars
SpecMesh == InitMesh /\ [][NextMesh]_vars
SpecQuad == InitQuad /\ [][NextQuad]_vars
SpecConvert == InitConvert /\ [][NextConvert]_vars
SpecFind == InitFind /\ [][NextFind]_vars
SpecEncode == InitParse /\ [][NextEncode]_vars
SpecNormals == InitNormals /\ [][NextNormals]_vars
SpecHealth == InitHealth /\ [][NextHealth]_vars
SpecCall == InitCall /\ [][NextCall]_vars
SpecLimit == InitLimit /\ [][NextLimit]_vars
SpecViewer == InitViewer /\ [][NextViewer]_vars
SpecCompute == InitCompute /\ [][NextCompute]_vars
SpecParse == InitParse /\ [][NextParse]_vars
Spec     == Init /\ [][Next]_vars

(***************************************************************************)
(* Properties of generateModifiedFile and of the round trip through it.    *)
(***************************************************************************)
\* C1: the file generateModifiedFile returns holds every byte of the
\* original beyond its first 10 000 bytes, unmodified, and ends with the
\* metadata comment.
C1_TailPreserved ==
  download.t = "done" =>
    /\ BufLen(download.original) > TextSample =>
         Find(fileBuffer, Flat(Drop(download.original, TextSample)), FALSE) # -1
    /\ Flat(Drop(fileBuffer, BufLen(fileBuffer)
                             - Len(MetadataComment(download.sent, download.now))))
       = MetadataComment(download.sent, download.now)

NameKinds(params) == {<<params[i].name, params[i].type>> : i \in 1..Len(params)}

\* C4: parsing the generated file succeeds and gives parameters with the
\* same (name, type) pairs as the definition it was generated from; a
\* parameter that was not edited is found again with its value.
C4_RoundTrip ==
  (download.t = "done" /\ pc = "done") =>
    /\ outcome.t = "definition"
    /\ NameKinds(outcome.parameters) = NameKinds(download.definition)
    /\ \A i \in 1..Len(download.definition) :
         i \notin download.edited =>
           \E j \in 1..Len(outcome.parameters) :
              /\ outcome.parameters[j].name = download.definition[i].name
              /\ outcome.parameters[j].type = download.definition[i].type
              /\ outcome.parameters[j].value = download.definition[i].value

(***************************************************************************)
(* Properties of parseDefinition.                                          *)
(***************************************************************************)
Mentions(error, message) == \E i \in 1..Len(error) : error[i] = message

\* C5: the error parseDefinition gives its caller names the failure: the
\* invalid format when the validation failed, the missing parameters when
\* the three extraction stages found nothing, and never both.
C5_ErrorTellsStage ==
  outcome.t = "error" =>
    /\ Mentions(outcome.error, E_InvalidFormat) = (stages = << >>)
    /\ Mentions(outcome.error, E_NoParameters) = (stages # << >>)

C7_SizeLimits ==
  (/\ accepted # "unknown"
   /\ (BufLen(fileBuffer) < 100 \/ BufLen(fileBuffer) > 100 * 1024 * 1024))
  => accepted = "no"

\* C7 witness: a file that is accepted whole is refused when cut to 99 bytes.
C7_Witness ==
  /\ accepted = "no" /\ upload.cut = 99 /\ BufLen(fileBuffer) = 99
  /\ ValidateGrasshopperFile(Norm(upload.file))

\* C8: a buffer of which more than four fifths of the bytes are 0x00 is not
\* accepted.
C8_NullRatio ==
  (/\ accepted # "unknown"
   /\ 5 * CountBytes(fileBuffer, {0}) > 4 * BufLen(fileBuffer))
  => accepted = "no"

\* C8 witness: a buffer of more than 100 bytes, all of them 0x00, is refused.
C8_Witness ==
  /\ accepted = "no" /\ BufLen(fileBuffer) > 100
  /\ CountBytes(fileBuffer, {0}) = BufLen(fileBuffer)

Printable == (32..126) \cup {9, 10, 13}

\* C9: a buffer whose share of printable bytes among its first 10 000 is
\* below 0.1 or above 0.9 is not accepted.
C9_TextRatio ==
  accepted = "yes" =>
    /\ 10 * CountBytes(Take(fileBuffer, 10000), Printable) >= Min(10000, BufLen(fileBuffer))
    /\ 10 * CountBytes(Take(fileBuffer, 10000), Printable)
         <= 9 * Min(10000, BufLen(fileBuffer))

\* Does a header signature begin at one of the first 1000 offsets of buf?
SignatureInWindow(buf) ==
  \E header \in {<<0>>, <<60, 63, 120, 109, 108>>,
                 <<60, 68, 97, 116, 97, 67, 111, 110, 116, 114, 97, 99, 116>>,
                 <<71, 72, 95>>,
                 <<71, 114, 97, 115, 115, 104, 111, 112, 112, 101, 114>>} :
     \E i \in 0..(Min(1000, BufLen(buf)) - 1) :
        Flat(Slice(buf, i, Min(i + Len(header), BufLen(buf)))) = header

\* C10: a buffer in which no header signature is found within the first
\* 1000 bytes is not accepted, whatever comes after them.
C10_HeaderWindow ==
  (accepted # "unknown" /\ ~SignatureInWindow(fileBuffer)) => accepted = "no"

\* C10 witness: a buffer of 200 bytes or more without any signature is
\* refused.
C10_Witness ==
  /\ accepted = "no" /\ BufLen(fileBuffer) >= 200
  /\ \A header \in ValidHeaders : Find(fileBuffer, header, FALSE) = -1

(***************************************************************************)
(* Properties of parseRhinoComputeResponse.                                *)
(***************************************************************************)
\* The first entry whose extraction did not throw.
FirstYield ==
  extracted[CHOOSE j \in 1..Len(extracted) :
              /\ extracted[j].error = << >>
              /\ \A i \in 1..(j - 1) : extracted[i].error # << >>].entry

\* C2: no entry is decoded after the first one that yields geometry, and
\* the mesh returned holds the vertices and faces of that entry alone.
C2_StopsAtFirstYield ==
  /\ \A k \in 1..Len(extracted) : \A j \in 1..(k - 1) : extracted[j].error # << >>
  /\ geometry.t = "mesh" =>
       /\ geometry.vertices
            = ExtractGeometryFromOutput(response.values[FirstYield], << >>, << >>, 0).vertices
       /\ geometry.faces
            = ExtractGeometryFromOutput(response.values[FirstYield], << >>, << >>, 0).faces

\* Is some index of faces not below the number of vertices?
IndexBeyond(vs, fs) ==
  \E i \in 1..Len(fs) : fs[i].hi * 65536 + fs[i].lo >= Len(vs) \div 3

\* Is some coordinate of vs an infinity or not a number?
NotFinite(vs) == \E i \in 1..Len(vs) : vs[i].mag >= 2139095040

\* C3: a mesh that is returned has vertices and faces in non-empty triples,
\* every face index below the number of vertices and every coordinate
\* finite; when an entry yielded geometry and the accumulated data is not
\* so, the decoding fails on the geometry validation.
C3_GeometryValid ==
  /\ geometry.t = "mesh" =>
       /\ Len(geometry.vertices) > 0 /\ Len(geometry.vertices) % 3 = 0
       /\ Len(geometry.faces) > 0 /\ Len(geometry.faces) % 3 = 0
       /\ ~IndexBeyond(geometry.vertices, geometry.faces)
       /\ ~NotFinite(geometry.vertices)
  /\ (phase = "done" /\ geometryFound
      /\ (IndexBeyond(vertices, faces) \/ NotFinite(vertices))) =>
       /\ geometry.t = "error"
       /\ geometry.error[2] \in {E_FaceIndex, E_Coordinate}

\* C3 witness: three vertices and a face that names index 5 end in the
\* failure of the geometry validation.
C3_Witness ==
  /\ phase = "done" /\ geometryFound /\ Len(vertices) = 9
  /\ \E i \in 1..Len(faces) : faces[i] = U32(0, 5)
  /\ geometry.t = "error" /\ geometry.error = <<E_Geometry, E_FaceIndex>>

(***************************************************************************)
(* Properties of the binary stage.                                         *)
(***************************************************************************)
\* The buffer holds the 0x00 marker, the GH_Document token and the Number
\* Slider GUID once, with the floats 50, 0, 100 at most 1000 bytes after it.
IsMinimalSlider(buf) ==
  /\ Find(buf, B_Nul, FALSE) # -1
  /\ Find(buf, S_GHDocument, FALSE) # -1
  /\ Len(FindComponentsByGuid(buf, G_NumberSlider)) = 1
  /\ LET guidAt == FindComponentsByGuid(buf, G_NumberSlider)[1].position
         floatsAt == IndexOf(buf, B_SliderFloats, guidAt)
     IN  floatsAt # -1 /\ floatsAt <= guidAt + WindowRadius

\* C11: a minimal slider file that passes the validation parses to exactly
\* one parameter, a number of value 50 with minimum 0 and maximum 100.
C11_MinimalSlider ==
  (pc = "done" /\ IsMinimalSlider(fileBuffer) /\ ValidateGrasshopperFile(fileBuffer)) =>
    /\ outcome.t = "definition"
    /\ Len(outcome.parameters) = 1
    /\ outcome.parameters[1].type = "number"
    /\ outcome.parameters[1].value = F_Fifty
    /\ outcome.parameters[1].min = F_Zero
    /\ outcome.parameters[1].max = F_Hundred

\* C12: the parameters of one parse result have pairwise distinct ids.
C12_DistinctIds ==
  outcome.t = "definition" =>
    \A i, j \in 1..Len(outcome.parameters) :
       i # j => outcome.parameters[i].id # outcome.parameters[j].id

\* C12 witness: the binary stage returns two parameters of one component
\* type, found under two encodings of its GUID.
C12_Witness ==
  /\ outcome.t = "definition" /\ stages = <<"binary">>
  /\ upload.file = TwoEncodingFile
  /\ Len(outcome.parameters) = 2
  /\ outcome.parameters[1].componentType = outcome.parameters[2].componentType
  /\ outcome.parameters[1].id # outcome.parameters[2].id

C14_JsonBranch ==
  /\ \A k \in 1..Len(extracted) :
        IsJsonMeshText(response.values[extracted[k].entry].data)
          => extracted[k].error = << >>
  /\ (/\ phase = "done" /\ Len(response.values) = 1 /\ Len(extracted) = 1
      /\ IsJsonMeshText(response.values[1].data)) =>
        /\ geometry.t = "mesh"
        /\ geometry.vertices
             = ParseMeshFromJSON(JsonParse(response.values[1].data), << >>, << >>, 0).vertices
        /\ geometry.faces
             = ParseMeshFromJSON(JsonParse(response.values[1].data), << >>, << >>, 0).faces

\* The indices a, b, c, ... as the faces array holds them.
Indexes(list) == [k \in DOMAIN list |-> U32Of(list[k])]

\* C15: a face (A, B, C, D) with D different from C gives the two triangles
\* A B C and A C D in that order, a face with D equal to C or without D
\* gives the triangle A B C, in the mapping of a mesh object and in the
\* tagged binary layout; the face 0 1 2 3 gives 0 1 2 and 0 2 3.
C15_QuadTriangles ==
  (meshObject # NoObject /\ (phase = "mapped" \/ Len(extracted) = 1)) =>
    LET face == meshObject.Faces[1]
    IN  /\ (face.D # Undefined /\ face.D # face.C) =>
              faces = Indexes(<<face.A, face.B, face.C, face.A, face.C, face.D>>)
        /\ (face.D = Undefined \/ face.D = face.C) =>
              faces = Indexes(<<face.A, face.B, face.C>>)
        /\ face = Face(0, 1, 2, 3) => faces = Indexes(<<0, 1, 2, 0, 2, 3>>)

\* C15 witness: the face 0 1 2 3 read from the tagged binary layout of an
\* envelope entry, as the two triangles.
C15_Witness ==
  /\ meshObject = J_QuadMesh /\ phase = "done" /\ Len(extracted) = 1
  /\ geometry.t = "mesh"
  /\ geometry.faces = Indexes(<<0, 1, 2, 0, 2, 3>>)

\* The entries of the envelope, up to the n-th, that have a ParamName with
\* a geometry keyword.
GeometryEntries(n) ==
  {i \in 1..n : /\ response.values[i].ParamName # << >>
                /\ IsGeometryOutput(response.values[i].ParamName)}

\* C16: an entry whose extraction fails does not end the decoding: every
\* entry with a geometry keyword the loop has passed was given to the
\* extraction, the decoding ends only after the last entry, and it fails
\* with "No valid geometry data found" exactly when no entry yielded.
C16_FailureGoesOn ==
  /\ phase \in {"loop", "done"} =>
        {extracted[k].entry : k \in 1..Len(extracted)} = GeometryEntries(position)
  /\ (phase = "done" /\ response.isArray) =>
        /\ position = Len(response.values)
        /\ (geometry.t = "error" /\ geometry.error = Wrap(E_Geometry, Error(E_NoGeometry)))
             = (\A k \in 1..Len(extracted) : extracted[k].error # << >>)

\* C16 witness: the first entry fails for its unrealistic size, the second
\* one is decoded and the mesh is returned.
C16_Witness ==
  /\ phase = "done" /\ Len(extracted) = 2
  /\ extracted[1].error = Wrap(E_MeshData, Error(E_Unrealistic))
  /\ extracted[2].error = << >>
  /\ geometry.t = "mesh"

\* C17: a mesh that is returned has as many normal coordinates as vertex
\* coordinates, or none.
C17_NormalsLength ==
  geometry.t = "mesh" => geometry.normals \in {0, Len(geometry.vertices)}

(***************************************************************************)
(* Properties of the request made of a parameter list.                     *)
(***************************************************************************)
\* C18: the request has one field for every parameter of the list: as many
\* fields as parameters, also when two parameters have the same name.
C18_FieldPerParameter ==
  pc = "converted" => Cardinality(DOMAIN inputs) = Len(parameters)

(***************************************************************************)
(* Properties of the search for the document.                              *)
(***************************************************************************)
\* Does pattern occur in the buffer from the cursor on?
OccursFromCursor(pattern) ==
  IndexOf(fileBuffer, pattern, SkipBinaryHeader(fileBuffer)) # -1

\* C19: when no literal marker is found from the cursor on, the handle of
\* the namespace-prefix search holds at most 50 hits; the handle is null
\* only if no marker and no prefix occurs from the cursor on.
C19_FallbackLimit ==
  pc = "found" =>
    /\ document.type = "NET_OBJECTS" => Len(document.objects) <= 50
    /\ document = NullDocument =>
          /\ \A k \in DOMAIN DocumentMarkers : ~OccursFromCursor(DocumentMarkers[k])
          /\ \A k \in DOMAIN NetTypePatterns : ~OccursFromCursor(NetTypePatterns[k])

(***************************************************************************)
(* Properties of the generated file.                                       *)
(***************************************************************************)
\* Do the byte lists a and b have the same length and differ at most in
\* the window of width bytes from k on, where a has stampA and b stampB?
SameButStamp(a, b, k, stampA, stampB) ==
  /\ Len(a) = Len(b)
  /\ SubSeq(a, k, k + Len(stampA) - 1) = stampA
  /\ SubSeq(b, k, k + Len(stampB) - 1) = stampB
  /\ \A i \in 1..Len(a) : (i < k \/ i >= k + Len(stampA)) => a[i] = b[i]

SingleTriangle ==
  /\ Len(faces) = 3 /\ Cardinality({faces[1], faces[2], faces[3]}) = 3
  /\ EdgeCross(vertices, faces, 1) # <<0, 0, 0>>

\* C21: for a single triangle A B C that is not degenerate, the normal at
\* each of its three vertices is the unit vector along (B - A) x (C - A);
\* for the vertices (0,0,0), (1,0,0), (0,1,0) the three normals are (0,0,1).
C21_TriangleNormal ==
  (phase = "pushed" /\ SingleTriangle) =>
    /\ \A j \in 1..3 :
          LET A == VertexAt(vertices, faces[1])
              B == VertexAt(vertices, faces[2])
              C == VertexAt(vertices, faces[3])
              n == vertexNormals[faces[j] + 1]
          IN  \* n is along the cross product, in its direction, with length 1
              /\ Cross(n.v, Cross(Minus(B, A), Minus(C, A))) = <<0, 0, 0>>
              /\ Dot(n.v, Cross(Minus(B, A), Minus(C, A))) > 0
              /\ n.over = Dot(n.v, n.v)
    /\ faces = <<0, 1, 2>> =>
          \A j \in 1..3 : vertexNormals[j] = [v |-> <<0, 0, 1>>, over |-> 1]

\* C21 witness: the triangle (0,0,0), (1,0,0), (0,1,0) with the normal
\* (0,0,1) at its vertices.
C21_Witness ==
  /\ phase = "pushed" /\ faces = <<0, 1, 2>>
  /\ vertexNormals[1] = [v |-> <<0, 0, 1>>, over |-> 1]
  /\ vertexNormals[2] = vertexNormals[1] /\ vertexNormals[3] = vertexNormals[1]

\* The sum, over the corners of the faces that are vertex i, of the cross
\* products of the faces as they are before any division.
RECURSIVE AreaWeighted(_, _, _, _)
AreaWeighted(vs, fs, i, f) ==
  IF f = 0 THEN <<0, 0, 0>>
  ELSE Plus(AreaWeighted(vs, fs, i, f - 1),
            Scaled(EdgeCross(vs, fs, f),
                   Cardinality({j \in {3 * f - 2, 3 * f - 1, 3 * f} : fs[j] = i})))

\* C22: the normal at a vertex is the unit vector along the sum of the
\* cross products of its faces, each with its magnitude (twice the area of
\* the face): a larger face weighs more than a smaller one.
C22_AreaWeighted ==
  phase = "pushed" =>
    \A i \in 0..((Len(vertices) \div 3) - 1) :
       vertexNormals[i + 1] = Unit(AreaWeighted(vertices, faces, i, Len(faces) \div 3))

(***************************************************************************)
(* C23: no mock or fallback geometry is ever served: every geometry an     *)
(* endpoint returns with a success status was computed by Rhino.Compute,   *)
(* also when the computation failed.                                       *)
(***************************************************************************)
C23_NoFallback ==
  answer.status = "success" => answer.geometry = "computed"

(***************************************************************************)
(* C25: after any sequence of checkServiceHealth results, a successful     *)
(* last result leaves consecutiveFailures 0 and the status healthy, or     *)
(* degraded when its responseTime is above 5000; a failed last result      *)
(* leaves consecutiveFailures at the number of checks that failed in a row *)
(* and the status degraded for 1 or 2 of them and unhealthy for 3 or more; *)
(* the status is unhealthy only if the last 3 checks failed or the last    *)
(* health check function threw.                                            *)
(***************************************************************************)
RECURSIVE FailuresInARow(_)
FailuresInARow(history) ==
  IF history = << >> THEN 0
  ELSE LET last == history[Len(history)]
       IN  IF last.t = "result" /\ last.success THEN 0
           ELSE 1 + FailuresInARow(SubSeq(history, 1, Len(history) - 1))

C25_StatusFollowsFailures ==
  checks # << >> =>
    LET last == checks[Len(checks)]
    IN  /\ service.consecutiveFailures = FailuresInARow(checks)
        /\ (last.t = "result" /\ last.success) =>
              service.status = IF last.responseTime > 5000 THEN "degraded" ELSE "healthy"
        /\ (last.t = "result" /\ ~last.success) =>
              service.status = IF FailuresInARow(checks) >= 3 THEN "unhealthy"
                               ELSE "degraded"
        /\ service.status = "unhealthy" =>
              last.t = "threw" \/ FailuresInARow(checks) >= 3

\* Three failed results in a row made the service unhealthy.
C25_Witness ==
  /\ Len(checks) >= 3
  /\ \A k \in (Len(checks) - 2)..Len(checks) : checks[k] = Failed(120)
  /\ service.status = "unhealthy"
  /\ service.consecutiveFailures = 3

(***************************************************************************)
(* C27: once the service is marked unhealthy, under computeGeometry calls  *)
(* alone the status stays unhealthy forever and the service is never       *)
(* contacted again.                                                        *)
(***************************************************************************)
C27_UnhealthyForever ==
  [][service.status = "unhealthy" =>
       /\ service'.status = "unhealthy"
       /\ contacted' = contacted]_vars

(***************************************************************************)
(* C24: callRhinoCompute sends at most 3 requests; after a 401, a 403 or   *)
(* any other 4xx response but 429 it sends no further request and throws   *)
(* at once, whatever the text of the error body; when all 3 attempts fail  *)
(* it throws a "failed after 3 attempts" error.                            *)
(***************************************************************************)
IsClientError(reply) ==
  reply.t = "response" /\ reply.status >= 400 /\ reply.status <= 499 /\ reply.status # 429

C24_RetryPolicy ==
  /\ requests <= 3
  /\ \A k \in 1..Len(replies) :
        IsClientError(replies[k]) => k = Len(replies) /\ callState.t = "threw"
  /\ (requests = 3 /\ callState.t = "threw" /\ ~IsClientError(replies[3])) =>
        Includes(callState.error.message, S_FailedAfter \o <<51>> \o S_Attempts)

(***************************************************************************)
(* C26: for any sequence of checkRateLimit calls of one client with fixed  *)
(* maxRequests and windowSeconds, at most maxRequests of the calls that    *)
(* returned true have their timestamp inside any window of windowSeconds   *)
(* (open at its start); a call returns false exactly when maxRequests      *)
(* allowed calls already lie within the last windowSeconds; a refused call *)
(* is not recorded.                                                        *)
(***************************************************************************)
AllowedCalls == {k \in 1..Len(limitCalls) : limitCalls[k].allowed}
InWindow(k, end) ==
  /\ limitCalls[k].at > end - windowSeconds * 1000
  /\ limitCalls[k].at <= end
WindowEnds == {StartTime + 500 * i : i \in 0..(4 * MaxLimitCalls)}

C26_SlidingWindow ==
  /\ \A end \in WindowEnds :
        Cardinality({k \in AllowedCalls : InWindow(k, end)}) <= maxRequests
  /\ \A k \in 1..Len(limitCalls) :
        /\ ~limitCalls[k].allowed <=>
              Cardinality({j \in AllowedCalls : j < k /\ InWindow(j, limitCalls[k].at)})
                >= maxRequests
        /\ ~limitCalls[k].allowed =>
              limitCalls[k].kept = IF k = 1 THEN << >> ELSE limitCalls[k - 1].kept

\* Two calls are allowed, the third is refused, and a later call is allowed
\* again when the first two have left the window.
C26_Witness ==
  /\ maxRequests = 2
  /\ Len(limitCalls) >= 4
  /\ limitCalls[1].allowed /\ limitCalls[2].allowed
  /\ ~limitCalls[3].allowed
  /\ limitCalls[4].allowed

(***************************************************************************)
(* C28: an entry of the envelope whose extraction fails leaves the shared  *)
(* vertices, faces and normals accumulators exactly as they were before    *)
(* that entry was attempted.                                               *)
(***************************************************************************)
C28_FailedEntryLeavesNothing ==
  [][(/\ Len(extracted') = Len(extracted) + 1
      /\ extracted'[Len(extracted')].error # << >>)
       => /\ vertices' = vertices
          /\ faces' = faces
          /\ normals' = normals]_vars

(***************************************************************************)
(* C29: for a point, vector, color or domain parameter whose value has the *)
(* shape the decoders produce ({x,y,z}, '#rrggbb', {min,max}), the data of *)
(* its request field carries that value and not a fixed default.           *)
(***************************************************************************)
DecoderShape(param) ==
  \/ param.type \in {"point", "vector"} /\ param.value.t = "xyz"
  \/ param.type = "color" /\ param.value.t = "text"
       /\ Len(param.value.v) = 7 /\ param.value.v[1] = 35
  \/ param.type = "domain" /\ param.value.t = "minmax"

C29_ValueForwarded ==
  pc = "converted" =>
    \A i \in DOMAIN parameters :
      (/\ DecoderShape(parameters[i])
       /\ \A j \in (i + 1)..Len(parameters) :
             InputName(parameters[j], j - 1) # InputName(parameters[i], i - 1))
        => inputs[InputName(parameters[i], i - 1)].data = parameters[i].value

(***************************************************************************)
(* C30: in the viewer, when every request succeeds, the computing flag is  *)
(* true while a compute request is in flight, and once no request is in    *)
(* flight the geometry shown is the response to the parameter set issued   *)
(* last.                                                                   *)
(***************************************************************************)
C30_LatestShown ==
  /\ waiting # << >> => computing
  /\ (waiting = << >> /\ clicks > 0) => viewerGeometry = GeometryFor(viewerParameters)
=============================================================================
